---- MODULE Spec2Model ----
(***************************************************************************)
(* State-machine model of the CrystalHeart growth engines.                 *)
(*                                                                         *)
(*   SpecGrid : CrystalGrowth (PythonTest/crystal_growth_audio_sim.py)     *)
(*   SpecRod  : draw_growing_rods (AssetMaker/crystal_art.py)              *)
(*   SpecTree : RectangleTree driven by advance_one_step                   *)
(*              (PythonTest2/tree_growth_audio_sim.py)                     *)
(*   SpecTreeApi : SpecTree plus direct calls of RectangleTree.split_leaf  *)
(*   SpecNorm : EnergyNormalizer (both audio drivers)                      *)
(*   SpecMap  : the energy remapping of the grid driver's loop             *)
(*   SpecPoly : polygon_area and ensure_ccw (facet_polygon_demo.py)        *)
(*   SpecSupport : support_radius (facet_polygon_demo.py)                  *)
(*   SpecStream : build_energy_stream and the streams it returns           *)
(*   SpecLoad : load_shape_layers (facet_polygon_demo.py)                  *)
(*                                                                         *)
(* Each specification runs one engine; the variables of the other engines  *)
(* keep the value they have while that engine is not instantiated.         *)
(*                                                                         *)
(* Random draws (shuffle order, Bernoulli trials, iteration order of a     *)
(* Python set) are nondeterministic choices.  One call of step() is a      *)
(* sequence of steps of the program counter pc: idle -> loop -> autofill   *)
(* -> return -> idle; no part of the call can be skipped.                 *)
(***************************************************************************)
EXTENDS Integers, Sequences, FiniteSets, TLC

VARIABLES
    \* ---- CrystalGrowth instance -------------------------------------
    size,            \* self.size
    symmetry_faces,  \* self.symmetry_faces
    grid,            \* self.grid, as a function <<x, y>> -> step-id
    boundary,        \* self.boundary
    last_split,      \* self.last_split (NoPoint for None)
    \* ---- the running step() call ------------------------------------
    pc,              \* "idle", "loop", "autofill", "return"
    frame,           \* arguments and max_add of the running call
    candidates,      \* candidates of the shuffled list not yet visited
    added,           \* local variable added
    lastStepId,      \* step_id of the last call (0: no call yet)
    \* ---- observers (history, not program state) ---------------------
    filledNow,       \* cells filled so far by the running call
    everBoundary,    \* every cell that has been in self.boundary
    \* ---- draw_growing_rods -----------------------------------------
    rods,            \* the list rods
    tick,            \* iterations of `for t in range(ticks)` completed since Init
    cursor,          \* position of `for rod in rods` in the running tick
    \* ---- RectangleTree and its driver -------------------------------
    args,            \* the parsed command line (0: no tree constructed)
    nodes,           \* self.nodes
    next_id,         \* self.next_id
    split_points,    \* self.split_points
    split_target_id, \* split_target_id of main (NoneId for None)
    tree_steps,      \* number of calls made on the tree
    \* ---- EnergyNormalizer -------------------------------------------
    max_a,           \* self.max_a (self.max_bass)
    max_b,           \* self.max_b (self.max_mid)
    max_c,           \* self.max_c (self.max_treble)
    sample,          \* the sample of the last normalize call (<<>>: none)
    normalized,      \* the sample that call returned (<<>>: none)
    steady,          \* observer: every sample so far was the same
    norm_calls,      \* observer: number of normalize calls, modulo 2
    \* ---- the mapping part of the driver loop of main ----------------
    steps_per_mapping, \* args.steps_per_mapping
    mapping_start,   \* args.mapping_start
    loop_step_id,    \* step_id of the last iteration of the loop (0: none yet)
    energy,          \* the normalized sample of that iteration
    mapping_index,   \* mapping_index of that iteration
    mapped,          \* the sample apply_mapping returned (<<>>: none)
    \* ---- facet compositor (facet_polygon_demo.py) -------------------
    poly_points,     \* the point list the caller holds (<<>>: none)
    ccw_calls,       \* number of times ensure_ccw replaced the list (at most 2)
    area_fwd,        \* polygon_area of the list, last call (<<>>: none)
    area_rev,        \* polygon_area of the reversed list, that call
    ray_center,      \* center handed to support_radius (<<>>: none)
    vertex,          \* index in the list of the vertex the direction aims at
    radius,          \* the value support_radius returned (<<>>: none)
    raw_shapes,      \* payload["shapes"] handed to load_shape_layers
    layers,          \* the list load_shape_layers returned
    load_state,      \* "none", "returned" or "ValueError"
    \* ---- energy sources (both audio drivers) ------------------------
    source,          \* what the --source argument names (kind none: no driver)
    loop_flag,       \* the loop argument of build_energy_stream
    stream_kind,     \* "none", "synthetic" or "jsonl": the stream returned
    stream_state,    \* "none", "open", "raised" or "done" (StopIteration)
    stream_error,    \* the exception a pull raised ("": none)
    file_pos,        \* number of lines the running _iter_file has consumed
    passes,          \* number of completed passes over the file
    pass_yielded,    \* the local yielded of JsonlEnergyStream.stream
    yielded,         \* observer: the samples pulled so far
    \* ---- the seed boost of CrystalGrowth.step ---------------------
    seed_boost_start, \* args.seed_boost_start, in quarters
    seed_boost_end,  \* args.seed_boost_end, in quarters
    seed_boost_steps, \* args.seed_boost_steps
    boost_step_id,   \* step_id of the last step() call (0: none yet)
    boost,           \* the factor that call applied (<<>>: none)
    \* ---- stabilize_layers_against_previous --------------------------
    stab_call,       \* the arguments of the call (no layers: no call)
    stab_out         \* the list the call returned (<<>>: not returned)

gridVars == <<size, symmetry_faces, grid, boundary, last_split, pc, frame,
              candidates, added, lastStepId, filledNow, everBoundary>>

rodVars == <<rods, tick, cursor>>

treeVars == <<args, nodes, next_id, split_points, split_target_id, tree_steps>>

normVars == <<max_a, max_b, max_c, sample, normalized, steady, norm_calls>>

mapVars == <<steps_per_mapping, mapping_start, loop_step_id, energy,
             mapping_index, mapped>>

facetVars == <<poly_points, ccw_calls, area_fwd, area_rev, ray_center, vertex, radius,
               raw_shapes, layers, load_state>>

streamVars == <<source, loop_flag, stream_kind, stream_state, stream_error,
                file_pos, passes, pass_yielded, yielded>>

boostVars == <<seed_boost_start, seed_boost_end, seed_boost_steps,
               boost_step_id, boost>>

stabVars == <<stab_call, stab_out>>

\* the components that are not growth engines
auxVars == <<normVars, mapVars, facetVars, streamVars, boostVars, stabVars>>

engineVars == <<gridVars, rodVars, treeVars>>

nonGridVars == <<rodVars, treeVars, auxVars>>

nonRodVars == <<gridVars, treeVars, auxVars>>

nonTreeVars == <<gridVars, rodVars, auxVars>>

nonNormVars == <<engineVars, mapVars, facetVars, streamVars, boostVars,
    stabVars>>

nonMapVars == <<engineVars, normVars, facetVars, streamVars, boostVars,
    stabVars>>

nonFacetVars == <<engineVars, normVars, mapVars, streamVars, boostVars,
    stabVars>>

nonStreamVars == <<engineVars, normVars, mapVars, facetVars, boostVars,
    stabVars>>

nonBoostVars == <<engineVars, normVars, mapVars, facetVars, streamVars,
    stabVars>>

nonStabVars == <<engineVars, normVars, mapVars, facetVars, streamVars,
    boostVars>>

vars == <<engineVars, auxVars>>

\* the rod engine has not been started
NoRods == rods = <<>> /\ tick = 0 /\ cursor = 0

\* no RectangleTree has been constructed
NoTree ==
    /\ args = 0
    /\ nodes = <<>>
    /\ next_id = 1
    /\ split_points = <<>>
    /\ split_target_id = 0
    /\ tree_steps = 0

\* no EnergyNormalizer has been constructed
NoNorm ==
    /\ max_a = 0
    /\ max_b = 0
    /\ max_c = 0
    /\ sample = <<>>
    /\ normalized = <<>>
    /\ steady = TRUE
    /\ norm_calls = 0

\* the driver loop has not been entered
NoMap ==
    /\ steps_per_mapping = 0
    /\ mapping_start = 0
    /\ loop_step_id = 0
    /\ energy = <<>>
    /\ mapping_index = 0
    /\ mapped = <<>>

\* no support_radius call has been made
NoSupport == ray_center = <<>> /\ vertex = 0 /\ radius = <<>>

\* no polygon_area or ensure_ccw call has been made
NoPoly == ccw_calls = 0 /\ area_fwd = <<>> /\ area_rev = <<>>

\* load_shape_layers has not been called
NoLoad == raw_shapes = <<>> /\ layers = <<>> /\ load_state = "none"

\* the facet compositor has not been started
NoFacet == poly_points = <<>> /\ NoPoly /\ NoSupport /\ NoLoad

\* no energy stream has been built
NoStream ==
    /\ source = [kind |-> "none", lines |-> <<>>]
    /\ loop_flag = FALSE
    /\ stream_kind = "none"
    /\ stream_state = "none"
    /\ stream_error = ""
    /\ file_pos = 0
    /\ passes = 0
    /\ pass_yielded = FALSE
    /\ yielded = <<>>

\* no step() call with a seed boost has been made
NoBoost ==
    /\ seed_boost_start = 0
    /\ seed_boost_end = 0
    /\ seed_boost_steps = 0
    /\ boost_step_id = 0
    /\ boost = <<>>

\* stabilize_layers_against_previous has not been called
NoStab ==
    /\ stab_call = [layers |-> <<>>, strength |-> 0, max_growth_ratio |-> 0]
    /\ stab_out = <<>>

NoAux == NoNorm /\ NoMap /\ NoFacet /\ NoStream /\ NoBoost /\ NoStab

(***************************************************************************)
(* Bounds of the model.                                                    *)
(***************************************************************************)
MaxSize == 3
MaxStepId == 2

Sizes == 1..MaxSize
FaceChoices == {1, 2, 3, 4}
\* energy channels in tenths
EnergyLevels == {0, 1}
SplitThicknessChoices == {0, 3}
AutoFillChoices == {0, 3}

NoPoint == <<-1, -1>>
IdleFrame == [step_id |-> 0, max_add |-> 0, symmetric |-> FALSE,
              split_thickness |-> 0, auto_fill_neighbors |-> 0]

(***************************************************************************)
(* Geometry helpers of CrystalGrowth.                                      *)
(***************************************************************************)
Cells == (0..(size - 1)) \X (0..(size - 1))

InGrid(p) == p[1] >= 0 /\ p[1] < size /\ p[2] >= 0 /\ p[2] < size

Center == <<size \div 2, size \div 2>>

Neighbors(p) ==
    {q \in {<<p[1] - 1, p[2]>>, <<p[1] + 1, p[2]>>,
            <<p[1], p[2] - 1>>, <<p[1], p[2] + 1>>} : InGrid(q)}

NeighborCount(g, p) == Cardinality({q \in Neighbors(p) : g[q] > 0})

Abs(v) == IF v < 0 THEN -v ELSE v

Sign(v) == IF v > 0 THEN 1 ELSE -1

SumOver(f, S) ==
    LET RECURSIVE Acc(_)
        Acc(T) == IF T = {} THEN 0
                  ELSE LET t == CHOOSE u \in T : TRUE
                       IN f[t] + Acc(T \ {t})
    IN Acc(S)

QuantizeDir(vx, vy) ==
    IF vx = 0 /\ vy = 0 THEN <<0, 0>>
    ELSE IF Abs(vx) >= 2 * Abs(vy) THEN <<Sign(vx), 0>>
    ELSE IF Abs(vy) >= 2 * Abs(vx) THEN <<0, Sign(vy)>>
    ELSE <<Sign(vx), Sign(vy)>>

SplitDirection(g, p) ==
    LET F == {q \in Neighbors(p) : g[q] > 0}
        vx == SumOver([q \in F |-> p[1] - q[1]], F)
        vy == SumOver([q \in F |-> p[2] - q[2]], F)
    IN QuantizeDir(vx, vy)

\* number of filled cells met walking from p (exclusive) along (dx, dy)
RECURSIVE Run(_, _, _, _)
Run(g, p, dx, dy) ==
    LET q == <<p[1] + dx, p[2] + dy>>
    IN IF InGrid(q) /\ g[q] > 0 THEN 1 + Run(g, q, dx, dy) ELSE 0

LineLength(g, p, dx, dy) == 1 + Run(g, p, dx, dy) + Run(g, p, -dx, -dy)

Max2(a, b) == IF a >= b THEN a ELSE b

AxisThickness(g, p) ==
    Max2(Max2(LineLength(g, p, 1, 0), LineLength(g, p, 0, 1)),
         Max2(LineLength(g, p, 1, 1), LineLength(g, p, 1, -1)))

PerpendicularThickness(g, p) ==
    LET d == SplitDirection(g, p)
    IN IF d = <<0, 0>> THEN AxisThickness(g, p)
       ELSE LineLength(g, p, -d[2], d[1])

(***************************************************************************)
(* _symmetric_points: rotation by 2*pi*k/faces about the centre cell and   *)
(* round() to the grid, in fixed point with 7 decimals.  The table entries *)
(* are math.cos / math.sin of the angle, truncated on the side of the      *)
(* double's rounding error (cos(2*pi/3) = -0.4999999999999998,             *)
(* cos(4*pi/3) = -0.5000000000000004), so that round() of a half-way value *)
(* falls as it does in the source.  The result equals _symmetric_points of *)
(* CPython for every cell of every grid up to 5 x 5; from 6 x 6 on the     *)
(* double sum cx + rx loses the error term and round() rounds half to even.*)
(***************************************************************************)
CosFix(faces, k) ==
    CASE k = 0 -> 10000000
      [] faces = 2 /\ k = 1 -> -10000000
      [] faces = 3 /\ k = 1 -> -4999999
      [] faces = 3 /\ k = 2 -> -5000001
      [] faces = 4 /\ k = 1 -> 0
      [] faces = 4 /\ k = 2 -> -10000000
      [] faces = 4 /\ k = 3 -> 0

SinFix(faces, k) ==
    CASE k = 0 -> 0
      [] faces = 2 /\ k = 1 -> 0
      [] faces = 3 /\ k = 1 -> 8660254
      [] faces = 3 /\ k = 2 -> -8660254
      [] faces = 4 /\ k = 1 -> 10000000
      [] faces = 4 /\ k = 2 -> 0
      [] faces = 4 /\ k = 3 -> -10000000

\* int(round(v)) for v given in units of 1e-7
RoundFix(v) == (2 * v + 10000000) \div 20000000

RotatedPoint(p, faces, k) ==
    LET cx == size \div 2
        cy == size \div 2
        dx == p[1] - cx
        dy == p[2] - cy
        rx == dx * CosFix(faces, k) - dy * SinFix(faces, k)
        ry == dx * SinFix(faces, k) + dy * CosFix(faces, k)
    IN <<RoundFix(cx * 10000000 + rx), RoundFix(cy * 10000000 + ry)>>

\* mutant: only every other rotation is taken
SymmetricPointsEveryOther(p) ==
    LET faces == Max2(1, symmetry_faces)
    IN IF faces = 1 THEN {p}
       ELSE {RotatedPoint(p, faces, 2 * k) : k \in 0..((faces - 1) \div 2)}

SymmetricPoints(p) ==
    LET faces == Max2(1, symmetry_faces)
    IN IF faces = 1 THEN {p}
       ELSE {RotatedPoint(p, faces, k) : k \in 0..(faces - 1)}

(***************************************************************************)
(* _add_cell.  A working state is a record                                 *)
(*   [grid, boundary, ever, n, filled]                                     *)
(* n: cells added, filled: the cells added, ever: the boundary history.    *)
(***************************************************************************)
\* mutant: the `== 0` test of _add_boundary_neighbors dropped
AddBoundaryNeighborsAll(st, p) ==
    [st EXCEPT !.boundary = @ \cup Neighbors(p), !.ever = @ \cup Neighbors(p)]

\* mutant: no neighbour is added to the boundary
AddBoundaryNeighborsNone(st, p) == st

AddBoundaryNeighbors(st, p) ==
    LET fresh == {q \in Neighbors(p) : st.grid[q] = 0}
    IN [st EXCEPT !.boundary = @ \cup fresh, !.ever = @ \cup fresh]

\* mutant: the cell is stamped with the next step's id
StampCellNext(st, p, step_id) == [st EXCEPT !.grid[p] = step_id + 1]

StampCell(st, p, step_id) == [st EXCEPT !.grid[p] = step_id]

\* mutant: the `self.grid[py][px] == 0` test of _add_cell dropped
AddPointRestamp(st, p, step_id) ==
    IF InGrid(p)
    THEN LET s1 == StampCell(st, p, step_id)
             s2 == [s1 EXCEPT !.boundary = @ \ {p}]
             s3 == AddBoundaryNeighbors(s2, p)
         IN [s3 EXCEPT !.n = @ + 1, !.filled = @ \cup {p}]
    ELSE st

\* body of the loop of _add_cell for one point
AddPoint(st, p, step_id) ==
    IF InGrid(p) /\ st.grid[p] = 0
    THEN LET s1 == StampCell(st, p, step_id)
             s2 == [s1 EXCEPT !.boundary = @ \ {p}]
             s3 == AddBoundaryNeighbors(s2, p)
         IN [s3 EXCEPT !.n = @ + 1, !.filled = @ \cup {p}]
    ELSE st

RECURSIVE AddPoints(_, _, _, _)
AddPoints(st, q, i, step_id) ==
    IF i > Len(q) THEN st
    ELSE AddPoints(AddPoint(st, q[i], step_id), q, i + 1, step_id)

\* the orders in which a Python set of points may be iterated
RECURSIVE OrdersOf(_)
OrdersOf(S) ==
    IF S = {} THEN {<<>>}
    ELSE UNION {{<<x>> \o q : q \in OrdersOf(S \ {x})} : x \in S}

\* mutant: the mirror images are left out
AddCellPointsNoMirror(p, symmetric) == {p}

AddCellPoints(p, symmetric) == IF symmetric THEN SymmetricPoints(p) ELSE {p}

AddCell(st, p, step_id, symmetric) ==
    {AddPoints(st, q, 1, step_id) : q \in OrdersOf(AddCellPoints(p, symmetric))}

AllowSplitForPoints(g, p, split_thickness, symmetric) ==
    \/ split_thickness <= 0
    \/ \A q \in (IF symmetric THEN SymmetricPoints(p) ELSE {p}) :
          \/ ~InGrid(q)
          \/ g[q] # 0
          \/ NeighborCount(g, q) < 2
          \/ PerpendicularThickness(g, q) >= split_thickness

ThickenInsteadOfSplit(st, p, step_id, symmetric) ==
    LET d == SplitDirection(st.grid, p)
        t1 == <<p[1] - d[2], p[2] + d[1]>>
        t2 == <<p[1] + d[2], p[2] - d[1]>>
        Free(t) == InGrid(t) /\ st.grid[t] = 0
    IN IF d = <<0, 0>> THEN {st}
       ELSE IF Free(t1) THEN AddCell(st, t1, step_id, symmetric)
       ELSE IF Free(t2) THEN AddCell(st, t2, step_id, symmetric)
       ELSE {st}

\* energy channels are given in tenths
MaxAdd(a, b, c) == 1 + ((5 * a + 3 * b + 2 * c) \div 10)

\* mutant: the loop stops one growth event late
ReachedMaxAddLate(n, max_add) == n > max_add

\* `if added >= max_add: break`
ReachedMaxAdd(n, max_add) == n >= max_add

(***************************************************************************)
(* CrystalGrowth.__init__ / _seed_center                                   *)
(***************************************************************************)
SeedCenter(n) ==
    LET c == <<n \div 2, n \div 2>>
        nb == {q \in {<<c[1] - 1, c[2]>>, <<c[1] + 1, c[2]>>,
                      <<c[1], c[2] - 1>>, <<c[1], c[2] + 1>>} :
                 q[1] >= 0 /\ q[1] < n /\ q[2] >= 0 /\ q[2] < n}
    IN [grid |-> [p \in (0..(n - 1)) \X (0..(n - 1)) |->
                     IF p = c THEN 1 ELSE 0],
        boundary |-> nb]

InitGrid ==
    /\ size \in Sizes
    /\ symmetry_faces \in FaceChoices
    /\ grid = SeedCenter(size).grid
    /\ boundary = SeedCenter(size).boundary
    /\ last_split = NoPoint
    /\ pc = "idle"
    /\ frame = IdleFrame
    /\ candidates = {}
    /\ added = 0
    /\ lastStepId = 0
    /\ filledNow = {}
    /\ everBoundary = SeedCenter(size).boundary
    /\ NoRods
    /\ NoTree
    /\ NoAux

(***************************************************************************)
(* CrystalGrowth.step                                                      *)
(***************************************************************************)
Work == [grid |-> grid, boundary |-> boundary, ever |-> everBoundary,
         n |-> 0, filled |-> {}]

Commit(r) ==
    /\ grid' = r.grid
    /\ boundary' = r.boundary
    /\ everBoundary' = r.ever
    /\ added' = added + r.n
    /\ filledNow' = filledNow \cup r.filled

\* mutant: the auto-fill pass is skipped
AfterLoopNoAutoFill == "return"

\* `if auto_fill_neighbors > 0: added += self._auto_fill(...)`
AfterLoop == IF frame.auto_fill_neighbors > 0 THEN "autofill" ELSE "return"

\* the driver numbers its ticks 1, 2, ... and skips the ticks whose energy is
\* below the thresholds: the ids it passes to step() increase strictly
StepIds == (lastStepId + 1)..MaxStepId

\* `if not self.boundary: return 0`
StepEmpty ==
    /\ pc = "idle"
    /\ boundary = {}
    /\ \E step_id \in StepIds : lastStepId' = step_id
    /\ UNCHANGED nonGridVars
    /\ UNCHANGED <<size, symmetry_faces, grid, boundary, last_split, pc, frame,
                   candidates, added, filledNow, everBoundary>>

\* entry of step() up to the shuffle
StepBegin ==
    /\ pc = "idle"
    /\ boundary # {}
    /\ \E step_id \in StepIds, a \in EnergyLevels, b \in EnergyLevels,
          c \in EnergyLevels, symmetric \in BOOLEAN,
          split_thickness \in SplitThicknessChoices,
          auto_fill_neighbors \in AutoFillChoices :
          /\ lastStepId' = step_id
          /\ frame' = [step_id |-> step_id, max_add |-> MaxAdd(a, b, c),
                       symmetric |-> symmetric,
                       split_thickness |-> split_thickness,
                       auto_fill_neighbors |-> auto_fill_neighbors]
    /\ candidates' = boundary
    /\ added' = 0
    /\ filledNow' = {}
    /\ pc' = "loop"
    /\ UNCHANGED nonGridVars
    /\ UNCHANGED <<size, symmetry_faces, grid, boundary, last_split,
                   everBoundary>>

\* mutant: every accepted candidate becomes the last split
LastSplitAlways(c, allowed, neighbors) == c

\* `if neighbors >= 2: self.last_split = (x, y)`, reached only when the
\* split is allowed
LastSplitAfter(c, allowed, neighbors) ==
    IF allowed /\ neighbors >= 2 THEN c ELSE last_split

\* the iterations of `for x, y in candidates` up to and including the next
\* candidate c whose Bernoulli trial succeeds; the candidates skipped on the
\* way (trial failed) change nothing and stay in `candidates`, where only a
\* later miss can be theirs
ProcessCandidate ==
    /\ pc = "loop"
    /\ \E c \in candidates :
          LET neighbors == NeighborCount(grid, c)
              allowed == AllowSplitForPoints(grid, c, frame.split_thickness,
                                             frame.symmetric)
              outcomes ==
                  IF ~allowed
                  THEN ThickenInsteadOfSplit(Work, c, frame.step_id,
                                             frame.symmetric)
                  ELSE AddCell(Work, c, frame.step_id, frame.symmetric)
          IN /\ \E r \in outcomes :
                   /\ Commit(r)
                   /\ LET stop == \/ ReachedMaxAdd(added + r.n, frame.max_add)
                                  \/ candidates \ {c} = {}
                      IN /\ candidates' = IF stop THEN {} ELSE candidates \ {c}
                         /\ pc' = IF stop THEN AfterLoop ELSE "loop"
             /\ last_split' = LastSplitAfter(c, allowed, neighbors)
    /\ UNCHANGED nonGridVars
    /\ UNCHANGED <<size, symmetry_faces, frame, lastStepId>>

\* the remaining iterations when every remaining trial fails: the loop ends
LoopExhausted ==
    /\ pc = "loop"
    /\ candidates' = {}
    /\ pc' = AfterLoop
    /\ UNCHANGED nonGridVars
    /\ UNCHANGED <<size, symmetry_faces, grid, boundary, last_split, frame,
                   added, lastStepId, filledNow, everBoundary>>

\* _auto_fill: one boundary cell that reaches the threshold is filled
AutoFillCell ==
    /\ pc = "autofill"
    /\ \E c \in boundary :
          /\ grid[c] = 0
          /\ NeighborCount(grid, c) >= frame.auto_fill_neighbors
          /\ \E r \in AddCell(Work, c, frame.step_id, frame.symmetric) :
                Commit(r)
    /\ UNCHANGED nonGridVars
    /\ UNCHANGED <<size, symmetry_faces, last_split, pc, frame, candidates,
                   lastStepId>>

\* _auto_fill: a pass that changes nothing ends the loop
AutoFillDone ==
    /\ pc = "autofill"
    /\ \A c \in boundary :
          grid[c] # 0 \/ NeighborCount(grid, c) < frame.auto_fill_neighbors
    /\ pc' = "return"
    /\ UNCHANGED nonGridVars
    /\ UNCHANGED <<size, symmetry_faces, grid, boundary, last_split, frame,
                   candidates, added, lastStepId, filledNow,
                   everBoundary>>

\* `return added`
StepReturn ==
    /\ pc = "return"
    /\ pc' = "idle"
    /\ frame' = IdleFrame
    /\ added' = 0
    /\ filledNow' = {}
    /\ UNCHANGED nonGridVars
    /\ UNCHANGED <<size, symmetry_faces, grid, boundary, last_split,
                   candidates, lastStepId, everBoundary>>

NextGrid ==
    \/ StepEmpty
    \/ StepBegin
    \/ ProcessCandidate
    \/ LoopExhausted
    \/ AutoFillCell
    \/ AutoFillDone
    \/ StepReturn

SpecGrid == InitGrid /\ [][NextGrid]_vars

(***************************************************************************)
(* Claims about the grid engine (checked under SpecGrid).                  *)
(***************************************************************************)
Filled == {c \in Cells : grid[c] > 0}

UnfilledNeighborsOfFilled ==
    {c \in Cells : grid[c] = 0 /\ \E q \in Neighbors(c) : grid[q] > 0}

\* the images of p under rotation by 90, 180 and 270 degrees about the
\* centre cell (size \div 2, size \div 2), in exact integer arithmetic
QuarterTurns(p) ==
    LET cx == size \div 2
        cy == size \div 2
        dx == p[1] - cx
        dy == p[2] - cy
    IN {<<cx - dy, cy + dx>>, <<cx - dx, cy - dy>>, <<cx + dy, cy - dx>>}

\* C1: after construction and after every step() call the boundary set is
\* exactly the set of unfilled in-grid cells with a filled 4-neighbour.
C1_BoundaryExact ==
    pc \in {"idle", "return"} => boundary = UnfilledNeighborsOfFilled

\* a call has returned having filled cells, and a frontier is left
C1_Witness ==
    /\ pc = "idle"
    /\ lastStepId >= 1
    /\ Cardinality(Filled) >= 3
    /\ boundary # {}

\* C2 as claimed: with symmetry_faces = 4 and symmetric growth, at the end
\* of a step() call every cell the call filled has its three rotated images
\* filled (hence inside the grid), for every grid size.
C2_MirrorCompleteAllSizes ==
    (pc = "return" /\ symmetry_faces = 4 /\ frame.symmetric)
        => \A c \in filledNow : \A i \in QuarterTurns(c) :
              InGrid(i) /\ grid[i] > 0

\* C2 amended: with symmetry_faces = 4 and symmetric growth, at the end of a
\* step() call every rotated image that lies inside the grid of a cell the
\* call filled is filled.
C2_MirrorCompleteInGrid ==
    (pc = "return" /\ symmetry_faces = 4 /\ frame.symmetric)
        => \A c \in filledNow : \A i \in QuarterTurns(c) :
              InGrid(i) => grid[i] > 0

\* a symmetric call with 4 faces returns having filled a full cluster
C2_Witness ==
    /\ pc = "return"
    /\ symmetry_faces = 4
    /\ frame.symmetric
    /\ \E c \in filledNow :
          /\ Cardinality(QuarterTurns(c) \cup {c}) = 4
          /\ QuarterTurns(c) \subseteq filledNow

\* C3: a filled cell keeps its step-id in every later step, the centre
\* seed keeps step-id 1, and the number of filled cells never decreases.
C3_FilledStaysFilled ==
    /\ [](grid[Center] = 1)
    /\ [][/\ \A c \in Cells : grid[c] # 0 => grid'[c] = grid[c]
          /\ Cardinality({c \in Cells : grid'[c] > 0}) >= Cardinality(Filled)
         ]_vars

\* a second call has filled a cell while a cell of the first call is there
C3_Witness ==
    /\ \E c \in Cells : c # Center /\ grid[c] = 1
    /\ \E c \in Cells : grid[c] = 2

\* C4: with step ids that start at 1 and never decrease, after each call
\* step(step_id, ...) no filled cell's step-id exceeds step_id.
C4_StampAtMostStepId ==
    (pc \in {"idle", "return"} /\ lastStepId >= 1)
        => \A c \in Cells : grid[c] <= lastStepId

\* a call has returned having stamped a cell with its own step id
C4_Witness ==
    /\ pc = "idle"
    /\ lastStepId >= 1
    /\ \E c \in Cells : c # Center /\ grid[c] = lastStepId

\* the growth events of one call put at most this many cells in one cluster
ClusterSize == IF frame.symmetric THEN Max2(1, symmetry_faces) ELSE 1

\* C5 as claimed: the number of cells one step() call fills never exceeds
\* max_add, with mirroring, thickening and auto-fill.
C5_AddedAtMostMaxAdd ==
    pc = "return" => Cardinality(filledNow) <= frame.max_add

\* C5 amended: the count step() returns is the number of cells it filled;
\* the candidate pass goes on only while that number is below max_add, so
\* with auto-fill disabled one call fills at most max_add - 1 + m cells, m
\* being the number of symmetry points of one growth event (symmetry_faces
\* with symmetric growth, else 1): never more than max_add without
\* mirroring.  Auto-fill is not capped by max_add.
C5_AddedBelowMaxAddPlusCluster ==
    /\ added = Cardinality(filledNow)
    /\ pc = "loop" => added < frame.max_add
    /\ (pc = "return" /\ frame.auto_fill_neighbors = 0)
          => added <= frame.max_add - 1 + ClusterSize

\* a call without auto-fill returns having overshot max_add by a cluster
C5_Witness ==
    /\ pc = "return"
    /\ frame.auto_fill_neighbors = 0
    /\ ClusterSize > 1
    /\ added = frame.max_add - 1 + ClusterSize

\* C6: every filled cell other than the centre seed was in the boundary set
\* at some point before it was filled, for every symmetry face count.
C6_FilledWasBoundary ==
    \A c \in Cells : (grid[c] > 0 /\ c # Center) => c \in everBoundary

(***************************************************************************)
(* Rod engine: draw_growing_rods (AssetMaker/crystal_art.py).              *)
(*                                                                         *)
(* Lengths and coordinates are fixed-point numbers in hundredths of a      *)
(* pixel.  A direction is an integer vector of norm 25 (the unit vector    *)
(* times 25): the twenty such vectors lie 16.26 or 20.61 degrees apart,    *)
(* both inside the branching offset range of 0.25 .. 0.45 rad, so the      *)
(* direction of a branch is a neighbour of its parent's direction.         *)
(* Corners are kept multiplied by 50, which makes them integers; the       *)
(* comparisons of the separating-axis test and of the bounds test do not   *)
(* depend on that common factor.                                           *)
(***************************************************************************)
WIDTH == 900
HEIGHT == 900

\* model values of rod_count, max_rods and ticks
RodCount == 2
MaxRods == 3
MaxTicks == 3

\* hundredths of a pixel
Fix(v) == v * 100

RodDirs ==
    << <<25, 0>>, <<24, 7>>, <<20, 15>>, <<15, 20>>, <<7, 24>>,
       <<0, 25>>, <<-7, 24>>, <<-15, 20>>, <<-20, 15>>, <<-24, 7>>,
       <<-25, 0>>, <<-24, -7>>, <<-20, -15>>, <<-15, -20>>, <<-7, -24>>,
       <<0, -25>>, <<7, -24>>, <<15, -20>>, <<20, -15>>, <<24, -7>> >>

\* math.atan2 of a direction, as its index in RodDirs
DirIndex(d) == CHOOSE k \in 1..Len(RodDirs) : RodDirs[k] = d

\* (cos(angle + offset), sin(angle + offset)) for offset of sign s
BranchDir(d, s) == RodDirs[((DirIndex(d) - 1 + s + 20) % 20) + 1]

\* the values drawn for an initial rod
RodCenters == {<<Fix(450), Fix(450)>>, <<Fix(450), Fix(470)>>,
               <<Fix(80), Fix(80)>>}
RodAngles == {RodDirs[1], RodDirs[6]}
RodLengths == {Fix(30)}
RodWidths == {Fix(6)}
\* energy in hundredths
RodEnergies == {60, 120}

\* base_len * (1.0 + value_noise(cx * 0.01, cy * 0.01)) at the model's centres
GrowLen(center) ==
    CASE center = <<Fix(450), Fix(450)>> -> 247
      [] center = <<Fix(450), Fix(470)>> -> 234
      [] center = <<Fix(80), Fix(80)>> -> 271
      [] OTHER -> 180

\* base_wid
GrowWid == 8

MinOf(S) == CHOOSE v \in S : \A w \in S : v <= w
MaxOf(S) == CHOOSE v \in S : \A w \in S : v >= w

\* the four corners, each coordinate multiplied by 50
rect_corners(center, direction, length, width) ==
    LET cx == 50 * center[1]
        cy == 50 * center[2]
        dx == direction[1]
        dy == direction[2]
        px == -dy
        py == dx
        lx == dx * length
        ly == dy * length
        wx == px * width
        wy == py * width
    IN << <<cx - lx - wx, cy - ly - wy>>,
          <<cx + lx - wx, cy + ly - wy>>,
          <<cx + lx + wx, cy + ly + wy>>,
          <<cx - lx + wx, cy - ly + wy>> >>

rect_axes(direction) == << direction, <<-direction[2], direction[1]>> >>

project(points, axis) ==
    LET dots == {points[k][1] * axis[1] + points[k][2] * axis[2] :
                 k \in 1..Len(points)}
    IN [min |-> MinOf(dots), max |-> MaxOf(dots)]

rects_intersect(a, b) ==
    LET a_pts == rect_corners(a.center, a.dir, a.length, a.width)
        b_pts == rect_corners(b.center, b.dir, b.length, b.width)
        axes == rect_axes(a.dir) \o rect_axes(b.dir)
    IN \A k \in 1..Len(axes) :
          LET pa == project(a_pts, axes[k])
              pb == project(b_pts, axes[k])
          IN ~(pa.max < pb.min \/ pb.max < pa.min)

rect_in_bounds(rect) ==
    LET pts == rect_corners(rect.center, rect.dir, rect.length, rect.width)
    IN \A k \in 1..Len(pts) :
          ~(\/ pts[k][1] < 0
            \/ pts[k][1] > 50 * Fix(WIDTH)
            \/ pts[k][2] < 0
            \/ pts[k][2] > 50 * Fix(HEIGHT))

\* mutant: only the active rods are tested
CollidedWithActive(rs, i, test) ==
    \E j \in 1..Len(rs) : j # i /\ rs[j].active /\ rects_intersect(test, rs[j])

\* any(rects_intersect(test, other) for other in rods if other is not rod)
Collided(rs, i, test) ==
    \E j \in 1..Len(rs) : j # i /\ rects_intersect(test, rs[j])

\* mutant: an extension that would leave the canvas ends the rod's growth
AttemptLengthEndsAtBorder(rs, i) ==
    LET rod == rs[i]
        test == [rod EXCEPT !.length = rod.length + GrowLen(rod.center)]
    IN IF rect_in_bounds(test) /\ ~Collided(rs, i, test)
       THEN [rs EXCEPT ![i].length = test.length]
       ELSE [rs EXCEPT ![i].active = FALSE]

\* "Attempt length growth" for rods[i]
AttemptLength(rs, i) ==
    LET rod == rs[i]
        test == [rod EXCEPT !.length = rod.length + GrowLen(rod.center)]
    IN IF rect_in_bounds(test)
       THEN IF ~Collided(rs, i, test)
            THEN [rs EXCEPT ![i].length = test.length]
            ELSE [rs EXCEPT ![i].active = FALSE]
       ELSE rs

\* "Width growth is gentler" for rods[i]
AttemptWidth(rs, i) ==
    LET rod == rs[i]
        test == [rod EXCEPT !.width = rod.width + GrowWid]
    IN IF rect_in_bounds(test) /\ ~Collided(rs, i, test)
       THEN [rs EXCEPT ![i].width = test.width]
       ELSE rs

\* the rod appended by "Rare branching"
BranchOf(rod, s) ==
    [center |-> rod.center,
     dir |-> BranchDir(rod.dir, s),
     length |-> rod.length \div 2,
     width |-> (rod.width * 6) \div 10,
     energy |-> (rod.energy * 9) \div 10,
     active |-> TRUE]

\* the state before any action of the other engines
NoGrid ==
    /\ size = 0
    /\ symmetry_faces = 0
    /\ grid = <<>>
    /\ boundary = {}
    /\ last_split = NoPoint
    /\ pc = "idle"
    /\ frame = IdleFrame
    /\ candidates = {}
    /\ added = 0
    /\ lastStepId = 0
    /\ filledNow = {}
    /\ everBoundary = {}

InitialRods ==
    [center : RodCenters, dir : RodAngles, length : RodLengths,
     width : RodWidths, energy : RodEnergies, active : {TRUE}]

\* number of ticks that have gone by when the model takes over: none, or as
\* many as bring a rod centred 80 pixels from the border within one length
\* extension of it
RodAges == {0, 47}

\* a rod that has grown in length and in width on each of age ticks
Aged(rod, age) ==
    [rod EXCEPT !.length = @ + age * GrowLen(rod.center),
                !.width = @ + age * GrowWid]

\* every rod is inside the canvas and no two rods intersect.  Rods only
\* grow, about a fixed centre: the rectangles of all earlier ticks lie
\* inside the present ones, so no extension up to now was refused
Undisturbed(rs) ==
    /\ \A i \in 1..Len(rs) : rect_in_bounds(rs[i])
    /\ \A i \in 1..Len(rs) : \A j \in 1..Len(rs) :
          i # j => ~rects_intersect(rs[i], rs[j])

\* the initial placement loop: rod_count rods at centres drawn from a
\* continuous distribution (no two alike), no test between them; then
\* either the first tick, or a later tick of a run in which so far every
\* rod passed its energy draw, every extension was committed and no branch
\* was drawn (tick counts the iterations from there on)
InitRod ==
    /\ \E placed \in [1..RodCount -> InitialRods], age \in RodAges :
          /\ \A i \in 1..RodCount : \A j \in 1..RodCount :
                i # j => placed[i].center # placed[j].center
          /\ rods = [i \in 1..RodCount |-> Aged(placed[i], age)]
          /\ age > 0 => Undisturbed(rods)
    /\ tick = 0
    /\ cursor = 1
    /\ NoGrid
    /\ NoTree
    /\ NoAux

\* `if not rod["active"]: continue`
RodInactive ==
    /\ tick < MaxTicks
    /\ cursor <= Len(rods)
    /\ ~rods[cursor].active
    /\ cursor' = cursor + 1
    /\ UNCHANGED <<rods, tick>>
    /\ UNCHANGED nonRodVars

\* `if random.random() > rod["energy"]: continue`; random() is below 1
RodRests ==
    /\ tick < MaxTicks
    /\ cursor <= Len(rods)
    /\ rods[cursor].active
    /\ rods[cursor].energy < 100
    /\ cursor' = cursor + 1
    /\ UNCHANGED <<rods, tick>>
    /\ UNCHANGED nonRodVars

\* the rest of the loop body: length attempt, width attempt, branching
RodGrows ==
    /\ tick < MaxTicks
    /\ cursor <= Len(rods)
    /\ rods[cursor].active
    /\ LET grown == AttemptWidth(AttemptLength(rods, cursor), cursor)
       IN \/ rods' = grown
          \/ /\ grown[cursor].active
             /\ Len(grown) < MaxRods
             /\ \E s \in {-1, 1} :
                   rods' = Append(grown, BranchOf(grown[cursor], s))
    /\ cursor' = cursor + 1
    /\ UNCHANGED tick
    /\ UNCHANGED nonRodVars

\* end of `for rod in rods`: the next tick starts
TickDone ==
    /\ tick < MaxTicks
    /\ cursor > Len(rods)
    /\ tick' = tick + 1
    /\ cursor' = 1
    /\ UNCHANGED rods
    /\ UNCHANGED nonRodVars

NextRod ==
    \/ RodInactive
    \/ RodRests
    \/ RodGrows
    \/ TickDone

SpecRod == InitRod /\ [][NextRod]_vars

(***************************************************************************)
(* Claims about the rod engine (checked under SpecRod).                    *)
(***************************************************************************)
\* C8: at every point of the simulation no two distinct active rods'
\* oriented rectangles intersect (rects_intersect is false for every pair
\* of distinct active rods).
C8_ActiveRodsDisjoint ==
    \A i \in 1..Len(rods) : \A j \in 1..Len(rods) :
        (i # j /\ rods[i].active /\ rods[j].active)
            => ~rects_intersect(rods[i], rods[j])

\* a branch has been spawned while the rods placed initially were disjoint
BranchOnParent ==
    /\ Len(rods) > RodCount
    /\ \A i \in 1..RodCount : \A j \in 1..RodCount :
          i # j => ~rects_intersect(rods[i], rods[j])
    /\ \E i \in 1..RodCount :
          /\ rods[i].active
          /\ rods[Len(rods)].active
          /\ rods[Len(rods)].center = rods[i].center
          /\ rects_intersect(rods[i], rods[Len(rods)])

(***************************************************************************)
(* Tree engine: RectangleTree and advance_one_step                         *)
(* (PythonTest2/tree_growth_audio_sim.py).                                 *)
(*                                                                         *)
(* Lengths, coordinates, thicknesses, pulses and charges are fixed-point   *)
(* numbers in hundredths; normalised energies are hundredths of 1.  A      *)
(* direction is the pair (cos, sin) of an angle that is a whole multiple   *)
(* of ten degrees, multiplied by 10000; the configurations of the model    *)
(* only produce such angles.  Products are rounded to the nearest          *)
(* hundredth, quotients are truncated.                                     *)
(***************************************************************************)
\* bound on the number of calls made on one tree
MaxTreeSteps == 2

NoneId == 0

RoundDiv(n, d) == (2 * n + d) \div (2 * d)

\* cos of 0, 10, ..., 90 degrees, times 10000
Cos10 == <<10000, 9848, 9397, 8660, 7660, 6428, 5000, 3420, 1736, 0>>

CosDeg(a) ==
    LET m == a % 360
    IN CASE m <= 90 -> Cos10[(m \div 10) + 1]
         [] m > 90 /\ m <= 180 -> -Cos10[((180 - m) \div 10) + 1]
         [] m > 180 /\ m <= 270 -> -Cos10[((m - 180) \div 10) + 1]
         [] OTHER -> Cos10[((360 - m) \div 10) + 1]

SinDeg(a) == CosDeg(a + 270)

\* (math.cos(angle), math.sin(angle))
DirOf(a) == <<CosDeg(a), SinDeg(a)>>

TreeAngles == {10 * k : k \in 0..35}

\* the angle of each direction of the model
AngleOfDir ==
    [d \in {DirOf(a) : a \in TreeAngles} |->
        CHOOSE a \in TreeAngles : DirOf(a) = d]

\* math.atan2(direction[1], direction[0]), in degrees
Atan2Deg(d) == AngleOfDir[d]

\* RectangleTree._normalize: the directions of the model have length 1
normalize(direction) ==
    IF direction = <<0, 0>> THEN <<0, -10000>> ELSE direction

\* TreeNode.end
end(node) ==
    <<node.start[1] + RoundDiv(node.direction[1] * node.length, 10000),
      node.start[2] + RoundDiv(node.direction[2] * node.length, 10000)>>

\* RectangleTree._tri_vertices: base_left, base_right, tip
tri_vertices(node) ==
    LET d == normalize(node.direction)
        px == -d[2]
        py == d[1]
        hx == RoundDiv(px * node.thickness, 20000)
        hy == RoundDiv(py * node.thickness, 20000)
    IN << <<node.start[1] + hx, node.start[2] + hy>>,
          <<node.start[1] - hx, node.start[2] - hy>>,
          end(node) >>

\* RectangleTree._tri_aabb
tri_aabb(node) ==
    LET verts == tri_vertices(node)
        xs == {verts[k][1] : k \in 1..3}
        ys == {verts[k][2] : k \in 1..3}
    IN [minx |-> MinOf(xs), miny |-> MinOf(ys),
        maxx |-> MaxOf(xs), maxy |-> MaxOf(ys)]

\* RectangleTree._fits_in_bounds on a canvas of the given size
fits_in_bounds(tsize, node) ==
    LET corners == tri_vertices(node)
    IN \A k \in 1..3 :
          ~(\/ corners[k][1] < 0
            \/ corners[k][1] > Fix(tsize - 1)
            \/ corners[k][2] < 0
            \/ corners[k][2] > Fix(tsize - 1))

TreeNode(node_id, parent, start, direction, length, thickness, depth) ==
    [node_id |-> node_id, parent |-> parent, start |-> start,
     direction |-> direction, length |-> length, thickness |-> thickness,
     depth |-> depth, split_charge |-> 0]

\* positions in ns of the nodes without children (RectangleTree.leaves)
leaves(ns) ==
    {i \in 1..Len(ns) :
        \A j \in 1..Len(ns) : ns[j].parent # ns[i].node_id}

\* mutant: every id but None is taken for the root's
node_by_idRoot(ns, node_id) == IF node_id = NoneId THEN 0 ELSE 1

\* RectangleTree.node_by_id, as a position in ns (0 for None)
node_by_id(ns, node_id) ==
    IF node_id = NoneId \/ \A i \in 1..Len(ns) : ns[i].node_id # node_id
    THEN 0
    ELSE CHOOSE i \in 1..Len(ns) :
            /\ ns[i].node_id = node_id
            /\ \A j \in 1..(i - 1) : ns[j].node_id # node_id

\* RectangleTree.grow_thickness
grow_thickness(ns, amount, max_thickness) ==
    IF amount <= 0 THEN ns
    ELSE LET per_node == amount \div Max2(1, Len(ns))
         IN [i \in 1..Len(ns) |->
                LET t == ns[i].thickness + per_node
                IN [ns[i] EXCEPT !.thickness =
                       IF max_thickness > 0 /\ t > max_thickness
                       THEN max_thickness ELSE t]]

\* the binary search of _clamp_length_to_bounds: k iterations left
RECURSIVE ClampSearch(_, _, _, _, _)
ClampSearch(tsize, node, lo, hi, k) ==
    IF k = 0 THEN lo
    ELSE LET mid == (lo + hi) \div 2
         IN IF fits_in_bounds(tsize, [node EXCEPT !.length = mid])
            THEN ClampSearch(tsize, node, mid, hi, k - 1)
            ELSE ClampSearch(tsize, node, lo, mid, k - 1)

\* RectangleTree._clamp_length_to_bounds
clamp_length_to_bounds(tsize, node) ==
    [node EXCEPT !.length =
        ClampSearch(tsize, node, Fix(1), Max2(Fix(1), node.length), 18)]

\* one node of grow_length: add, cap at max_length, clamp
Lengthen(tsize, node, growth, max_length) ==
    LET l == node.length + growth
        capped == IF max_length > 0 /\ l > max_length THEN max_length ELSE l
    IN clamp_length_to_bounds(tsize, [node EXCEPT !.length = capped])

\* mutant: after a length pulse every child is moved to its parent's end
grow_lengthMovingChildren(tsize, ns, amount, max_length) ==
    IF amount <= 0 \/ leaves(ns) = {} THEN ns
    ELSE LET ls == leaves(ns)
             per_leaf == amount \div Cardinality(ls)
             grown == [i \in 1..Len(ns) |->
                          Lengthen(tsize, ns[i],
                                   IF i \in ls THEN per_leaf
                                   ELSE per_leaf \div 4, max_length)]
         IN [i \in 1..Len(ns) |->
                LET p == node_by_id(grown, grown[i].parent)
                IN IF p = 0 THEN grown[i]
                   ELSE [grown[i] EXCEPT !.start = end(grown[p])]]

\* RectangleTree.grow_length
grow_length(tsize, ns, amount, max_length) ==
    IF amount <= 0 \/ leaves(ns) = {} THEN ns
    ELSE LET ls == leaves(ns)
             per_leaf == amount \div Cardinality(ls)
             parent_growth == per_leaf \div 4
         IN [i \in 1..Len(ns) |->
                IF i \in ls
                THEN Lengthen(tsize, ns[i], per_leaf, max_length)
                ELSE IF parent_growth > 0
                     THEN Lengthen(tsize, ns[i], parent_growth, max_length)
                     ELSE ns[i]]

\* RectangleTree._new_id: the value of next_id after the call
NextIdStuck(n) == n

NextIdAfter(n) == n + 1

\* depth of a child created under parent
ChildDepthSame(parent) == parent.depth

ChildDepth(parent) == parent.depth + 1

\* RectangleTree._add_child on t = [nodes, next_id, split_points]; created
\* is 1 when the child was appended and 0 when _fits_in_bounds rejected it
add_child(tsize, t, pidx, direction, length, thickness) ==
    LET parent == t.nodes[pidx]
        child == [TreeNode(t.next_id, parent.node_id, end(parent), direction,
                           length, thickness, 0)
                  EXCEPT !.depth = ChildDepth(parent)]
        t1 == [t EXCEPT !.next_id = NextIdAfter(t.next_id)]
    IN IF ~fits_in_bounds(tsize, child)
       THEN [t |-> t1, created |-> 0]
       ELSE [t |-> [t1 EXCEPT !.nodes = Append(t1.nodes, child)],
             created |-> 1]

\* the loop of split_leaf and split_with_directions over directions[k..]
RECURSIVE AddChildren(_, _, _, _, _, _, _)
AddChildren(tsize, r, pidx, directions, k, length, thickness) ==
    IF k > Len(directions) THEN r
    ELSE LET a == add_child(tsize, r.t, pidx, directions[k], length,
                            thickness)
         IN AddChildren(tsize, [t |-> a.t, created |-> r.created + a.created],
                        pidx, directions, k + 1, length, thickness)

\* mutant: the split point is recorded once for every child
split_with_directionsPerChild(tsize, t, pidx, directions, child_length, child_thickness) ==
    LET r == AddChildren(tsize, [t |-> t, created |-> 0], pidx, directions,
                         1, child_length, child_thickness)
    IN [r EXCEPT !.t.split_points =
           r.t.split_points \o [k \in 1..r.created |-> end(t.nodes[pidx])]]

\* RectangleTree.split_with_directions
split_with_directions(tsize, t, pidx, directions, child_length, child_thickness) ==
    LET r == AddChildren(tsize, [t |-> t, created |-> 0], pidx, directions,
                         1, child_length, child_thickness)
    IN IF r.created > 0
       THEN [r EXCEPT !.t.split_points =
                Append(r.t.split_points, end(t.nodes[pidx]))]
       ELSE r

\* span = max(1.0, min(89.0, total_angle_deg)), in degrees
Span(total_angle_deg) ==
    Max2(1, IF total_angle_deg > 89 THEN 89 ELSE total_angle_deg)

\* RectangleTree._split_directions
split_directions(direction, count, total_angle_deg) ==
    IF count <= 1 THEN <<normalize(direction)>>
    ELSE LET half == Span(total_angle_deg) \div 2
             base_angle == Atan2Deg(direction)
             offsets == IF count = 2 THEN <<360 - half, half>>
                        ELSE <<360 - half, 0, half>>
         IN [k \in 1..Len(offsets) |-> DirOf(base_angle + offsets[k])]

\* RectangleTree.split_leaf
split_leaf(tsize, t, pidx, count, total_angle_deg, child_length, child_thickness) ==
    split_with_directions(tsize, t, pidx,
        split_directions(t.nodes[pidx].direction, count, total_angle_deg),
        child_length, child_thickness)

\* square of math.hypot(p[0] - q[0], p[1] - q[1])
Hypot2(p, q) ==
    (p[1] - q[1]) * (p[1] - q[1]) + (p[2] - q[2]) * (p[2] - q[2])

\* largest r in lo..hi with r * r <= n
RECURSIVE SqrtSearch(_, _, _)
SqrtSearch(n, lo, hi) ==
    IF lo >= hi THEN lo
    ELSE LET mid == (lo + hi + 1) \div 2
         IN IF mid * mid <= n THEN SqrtSearch(n, mid, hi)
            ELSE SqrtSearch(n, lo, mid - 1)

\* math.hypot, truncated to hundredths
Hypot(p, q) == SqrtSearch(Hypot2(p, q), 0, 40000)

\* RectangleTree.min_split_distance_ok
min_split_distance_ok(sps, point, min_distance) ==
    IF min_distance <= 0 THEN TRUE
    ELSE \A k \in 1..Len(sps) :
            ~(Hypot2(point, sps[k]) < min_distance * min_distance)

\* samples = max(3, samples | 1)
OddSamples(samples) ==
    Max2(3, IF samples % 2 = 0 THEN samples + 1 ELSE samples)

\* offsets[i] of split_direction_candidates, in degrees, i = 0 .. samples-1
Offset(total_angle_deg, samples, i) ==
    LET span == Span(total_angle_deg)
    IN (span * i) \div (OddSamples(samples) - 1) - (span \div 2)

\* the body of the loop of split_direction_candidates for one offset: the
\* candidate is viable, and clearance is its clearance
Candidate(tsize, t, pidx, offset, min_clearance, min_split_distance, overlap_buffer, child_length, child_thickness) ==
    LET node == t.nodes[pidx]
        direction == DirOf(Atan2Deg(node.direction) + 360 + offset)
        test == TreeNode(-1, node.node_id, end(node), direction,
                         child_length, child_thickness, node.depth + 1)
        tip == end(test)
        tb == tri_aabb(test)
        overlap ==
            \E j \in 1..Len(t.nodes) :
                /\ t.nodes[j].node_id # node.node_id
                /\ LET ob == tri_aabb(t.nodes[j])
                   IN ~(\/ tb.maxx + overlap_buffer < ob.minx
                        \/ tb.minx - overlap_buffer > ob.maxx
                        \/ tb.maxy + overlap_buffer < ob.miny
                        \/ tb.miny - overlap_buffer > ob.maxy)
        bound_clear == MinOf({tip[1], tip[2], Fix(tsize - 1) - tip[1],
                              Fix(tsize - 1) - tip[2]})
        clearance ==
            MinOf({bound_clear} \cup
                  {Hypot(tip, t.split_points[k]) :
                      k \in 1..Len(t.split_points)})
    IN [direction |-> direction,
        clearance |-> clearance,
        viable |->
            /\ fits_in_bounds(tsize, test)
            /\ min_split_distance_ok(t.split_points, tip, min_split_distance)
            /\ min_split_distance_ok(t.split_points, end(node),
                                     min_split_distance)
            /\ ~(overlap_buffer > 0 /\ overlap)
            /\ ~(clearance < min_clearance)]

\* RectangleTree.split_direction_candidates: the viable candidates (the
\* order of the sorted list is decided where the list is used)
split_direction_candidates(tsize, t, pidx, total_angle_deg, samples, min_clearance, min_split_distance, overlap_buffer, child_length, child_thickness) ==
    LET all == {Candidate(tsize, t, pidx,
                          Offset(total_angle_deg, samples, i), min_clearance,
                          min_split_distance, overlap_buffer, child_length,
                          child_thickness) :
                   i \in 0..(OddSamples(samples) - 1)}
    IN {c \in all : c.viable}

\* abs((angle - first_angle + math.pi) % (2 * math.pi) - math.pi), degrees
AngleDiff(d, first) ==
    Abs(((Atan2Deg(d) - Atan2Deg(first) + 540) % 360) - 180)

\* no minimum separation
MinSepNone(split_total_angle) == 0

\* four times min_sep = max(5.0, split_total_angle / 4.0), in degrees
MinSep4(split_total_angle) == Max2(20, split_total_angle)

\* the lists `directions` that advance_one_step can build from the sorted
\* candidates: the first is a candidate of greatest clearance, the second
\* the first later one at least min_sep away.  Candidates of equal
\* clearance can come in either order, and a difference equal to min_sep
\* can compare either way (both are decided by floating-point rounding).
DirectionLists(cands, split_total_angle) ==
    LET best(S) == {c \in S : \A o \in S : o.clearance <= c.clearance}
        far(first, lenient) ==
            {c \in cands \ {first} :
                \/ 4 * AngleDiff(c.direction, first.direction)
                      > MinSep4(split_total_angle)
                \/ /\ lenient
                   /\ 4 * AngleDiff(c.direction, first.direction)
                         = MinSep4(split_total_angle)}
    IN UNION {UNION {IF far(first, lenient) = {}
                     THEN {<<first.direction>>}
                     ELSE {<<first.direction, c.direction>> :
                              c \in best(far(first, lenient))} :
                     lenient \in BOOLEAN} :
              first \in best(cands)}

\* the command lines of the model: the defaults of the parser with the
\* class defaults for the root, and a few canvas sizes and split settings
TreeArgs ==
    [size : {30, 40},
     root_length : {Fix(18)},
     root_thickness : {Fix(6)},
     square_size : {Fix(6)},
     split_total_angle : {80},
     split_angle_samples : {9},
     split_min_distance : {0, Fix(10)},
     split_min_clearance : {Fix(6)},
     split_overlap_buffer : {0, Fix(2)},
     split_charge_threshold : {Fix(2)},
     split_area_reference : {0},
     max_length : {0},
     max_thickness : {0},
     thickness_threshold : {20},
     thickness_scale : {18},
     length_threshold : {20},
     length_scale : {24},
     split_threshold : {30},
     split_scale : {8}]

\* normalised band energies, in hundredths
BandLevels == {0, 100}

\* child_length and child_thickness passed to split_leaf
ApiChildLengths == {Fix(6), Fix(10)}
ApiChildThickness == Fix(4)

\* pulse_amount
pulse_amount(value, threshold, scale) ==
    IF value < threshold THEN 0 ELSE (value - threshold) * scale

\* main: square_size = max(1.0, args.square_size)
square_size(a) == Max2(Fix(1), a.square_size)

\* main: area_reference, in units of 1e-4
area_reference(a) ==
    IF a.split_area_reference > 0 THEN a.split_area_reference
    ELSE square_size(a) * square_size(a)

Pow2(n) == IF n <= 0 THEN 1 ELSE 2 ^ n

\* advance_one_step.required_split_charge; twice the area is
\* length * thickness, and an area of 0 stands for max(1e-6, area)
required_split_charge(a, node) ==
    LET area2 == Max2(1, node.length * node.thickness)
        base == a.split_charge_threshold * Pow2(node.depth)
    IN IF 2 * area_reference(a) > area2
       THEN (base * 2 * area_reference(a)) \div area2
       ELSE base

\* the `if split_pulse > 0:` block of advance_one_step on
\* t = [nodes, next_id, split_points]: the set of possible results
\* [t, target], target being the new split_target_id
SplitBlock(a, t, target, split_pulse) ==
    LET found == node_by_id(t.nodes, target)
        picks == IF found = 0 THEN 1..Len(t.nodes) ELSE {found}
        charged(i) == [t EXCEPT !.nodes[i].split_charge = @ + split_pulse]
        resolved(i) ==
            LET t1 == charged(i)
                leaf == t1.nodes[i]
                leaf_required == required_split_charge(a, leaf)
                cands ==
                    split_direction_candidates(a.size, t1, i,
                        a.split_total_angle,
                        Max2(3, a.split_angle_samples),
                        Max2(0, a.split_min_clearance),
                        Max2(0, a.split_min_distance),
                        Max2(0, a.split_overlap_buffer),
                        square_size(a), square_size(a))
            IN IF leaf.split_charge < leaf_required
               THEN {[t |-> t1, target |-> leaf.node_id]}
               ELSE IF cands = {}
               THEN {[t |-> [t1 EXCEPT !.nodes[i].split_charge = 0],
                      target |-> NoneId]}
               ELSE {LET r == split_with_directions(a.size, t1, i, directions,
                                  square_size(a), square_size(a))
                     IN [t |-> IF r.created > 0
                               THEN [r.t EXCEPT !.nodes[i].split_charge =
                                        @ - leaf_required * r.created]
                               ELSE r.t,
                         target |-> NoneId] :
                     directions \in
                        DirectionLists(cands, a.split_total_angle)}
    IN UNION {resolved(i) : i \in picks}

\* advance_one_step for one normalised energy sample
StepOutcomes(a, t, target, bass, mid, treble) ==
    LET thickness_pulse ==
            pulse_amount(bass, a.thickness_threshold, a.thickness_scale)
        length_pulse == pulse_amount(mid, a.length_threshold, a.length_scale)
        split_pulse == pulse_amount(treble, a.split_threshold, a.split_scale)
        n1 == IF thickness_pulse > 0
              THEN grow_thickness(t.nodes, thickness_pulse, a.max_thickness)
              ELSE t.nodes
        n2 == IF length_pulse > 0
              THEN grow_length(a.size, n1, length_pulse, a.max_length)
              ELSE n1
        t2 == [t EXCEPT !.nodes = n2]
    IN IF split_pulse > 0 THEN SplitBlock(a, t2, target, split_pulse)
       ELSE {[t |-> t2, target |-> target]}

\* the root node RectangleTree.__init__ builds
Root(a) ==
    TreeNode(1, NoneId,
             <<Fix(a.size) \div 2,
               Fix(a.size - 1) - a.root_thickness \div 2 - Fix(1)>>,
             <<0, -10000>>, a.root_length, a.root_thickness, 0)

\* RectangleTree.__init__
InitTree ==
    /\ args \in TreeArgs
    /\ nodes = <<Root(args)>>
    /\ next_id = NextIdAfter(1)
    /\ split_points = <<>>
    /\ split_target_id = NoneId
    /\ tree_steps = 0
    /\ NoGrid
    /\ NoRods
    /\ NoAux

Tree == [nodes |-> nodes, next_id |-> next_id, split_points |-> split_points]

\* one iteration of the driver loop: advance_one_step(step_id)
AdvanceOneStep ==
    /\ tree_steps < MaxTreeSteps
    /\ \E bass \in BandLevels, mid \in BandLevels, treble \in BandLevels :
          \E r \in StepOutcomes(args, Tree, split_target_id, bass, mid,
                                treble) :
              /\ nodes' = r.t.nodes
              /\ next_id' = r.t.next_id
              /\ split_points' = r.t.split_points
              /\ split_target_id' = r.target
    /\ tree_steps' = tree_steps + 1
    /\ UNCHANGED args
    /\ UNCHANGED nonTreeVars

\* a direct call tree.split_leaf(leaf, count, ...) on a node of the tree
SplitLeafCall ==
    /\ tree_steps < MaxTreeSteps
    /\ \E i \in 1..Len(nodes), count \in 1..3,
          child_length \in ApiChildLengths :
          LET r == split_leaf(args.size, Tree, i, count,
                              args.split_total_angle, child_length,
                              ApiChildThickness)
          IN /\ nodes' = r.t.nodes
             /\ next_id' = r.t.next_id
             /\ split_points' = r.t.split_points
    /\ tree_steps' = tree_steps + 1
    /\ UNCHANGED <<args, split_target_id>>
    /\ UNCHANGED nonTreeVars

NextTree == AdvanceOneStep

SpecTree == InitTree /\ [][NextTree]_vars

NextTreeApi ==
    \/ AdvanceOneStep
    \/ SplitLeafCall

SpecTreeApi == InitTree /\ [][NextTreeApi]_vars

(***************************************************************************)
(* Claims about the tree engine (checked under SpecTreeApi).               *)
(***************************************************************************)
\* C9: in every reachable state the root has depth 0, and every other node
\* has a parent id that refers to a node present in the tree and a depth
\* equal to that parent's depth plus one.
C9_DepthIsParentPlusOne ==
    \A i \in 1..Len(nodes) :
        IF nodes[i].parent = NoneId
        THEN nodes[i].depth = 0
        ELSE /\ node_by_id(nodes, nodes[i].parent) # 0
             /\ nodes[i].depth =
                   nodes[node_by_id(nodes, nodes[i].parent)].depth + 1

\* a child of a child of the root is in the tree
C9_Witness ==
    \E i \in 1..Len(nodes) : \E j \in 1..Len(nodes) :
        /\ nodes[i].parent # NoneId
        /\ nodes[j].parent = nodes[i].node_id
        /\ nodes[j].depth = 2

\* C10: node ids are unique and strictly increasing in the order of the
\* node list, also after a split in which a child was rejected for leaving
\* the canvas, and every child's id is greater than its parent's id.
C10_IdsIncrease ==
    /\ \A i \in 1..Len(nodes) : \A j \in 1..Len(nodes) :
          i < j => nodes[i].node_id < nodes[j].node_id
    /\ \A i \in 1..Len(nodes) :
          nodes[i].parent # NoneId => nodes[i].parent < nodes[i].node_id

\* a child was appended after another child had been rejected: an id that
\* was handed out is missing between two neighbours of the node list
C10_Witness ==
    \E i \in 1..(Len(nodes) - 1) :
        /\ nodes[i + 1].node_id > nodes[i].node_id + 1
        /\ nodes[i + 1].parent # NoneId

(***************************************************************************)
(* Claims about the splits made by advance_one_step (checked under         *)
(* SpecTree).                                                              *)
(***************************************************************************)
\* the angle between two directions, in degrees (0 .. 180)
AngleBetween(d1, d2) ==
    LET a == (AngleOfDir[d1] - AngleOfDir[d2] + 360) % 360
    IN IF a > 180 THEN 360 - a ELSE a

\* C11: whenever one split creates two children, the angle between the two
\* children's directions is at least max(5 degrees, split_total_angle / 4).
C11_SiblingsApart ==
    [][Len(nodes') = Len(nodes) + 2 =>
          LET c1 == nodes'[Len(nodes) + 1]
              c2 == nodes'[Len(nodes) + 2]
          IN /\ c1.parent = c2.parent
             /\ 4 * AngleBetween(c1.direction, c2.direction) >= 20
             /\ 4 * AngleBetween(c1.direction, c2.direction)
                   >= args.split_total_angle]_vars

\* a second split of the root has created two children that are exactly
\* the minimum separation apart
C11_Witness ==
    /\ Len(nodes) = 5
    /\ nodes[4].parent = nodes[5].parent
    /\ nodes[5].node_id = nodes[4].node_id + 1
    /\ 4 * AngleBetween(nodes[4].direction, nodes[5].direction)
          = Max2(20, args.split_total_angle)

(***************************************************************************)
(* EnergyNormalizer (PythonTest/crystal_growth_audio_sim.py and, with the  *)
(* channels named bass, mid, treble, PythonTest2/tree_growth_audio_sim.py).*)
(*                                                                         *)
(* Channel values and running maxima are whole multiples of the smallest   *)
(* positive double, 2^-1074 (about 4.94e-324); in that range the doubles   *)
(* are evenly spaced, so a product is the exact product rounded to the     *)
(* nearest whole number.  The double nearest to 0.995 lies just below      *)
(* 0.995, so a product that ends in one half rounds down.  The running     *)
(* maxima start at 1e-6 and fall by the factor 0.995 on every call that    *)
(* does not raise them; the model starts where they have fallen to         *)
(* DecayedMax units, which every run with small enough samples passes      *)
(* through.  A normalized channel is kept in hundredths, truncated: it is  *)
(* 100 exactly when the quotient is 1.0.                                   *)
(***************************************************************************)
\* no growth engine is running
NoEngines == NoGrid /\ NoRods /\ NoTree

\* the value of the running maxima where the model starts
DecayedMax == 104

\* the channel values of the samples
NormLevels == {0, 50, 101, 106}

\* self.max_x * self.decay with decay = 0.995
DecayMul(m) == (995 * m + 499) \div 1000

\* the running maximum without the sample
RunningMaxDecayOnly(v, m) == DecayMul(m)

\* self.max_x = max(sample.x, self.max_x * self.decay)
RunningMax(v, m) == Max2(v, DecayMul(m))

\* min(1.0, sample.x / self.max_x) if self.max_x > 0 else 0.0
NormRatio(v, m) ==
    IF m > 0
    THEN IF (100 * v) \div m > 100 THEN 100 ELSE (100 * v) \div m
    ELSE 0

InitNorm ==
    /\ max_a = DecayedMax
    /\ max_b = DecayedMax
    /\ max_c = DecayedMax
    /\ sample = <<>>
    /\ normalized = <<>>
    /\ steady = TRUE
    /\ norm_calls = 0
    /\ NoEngines
    /\ NoMap
    /\ NoFacet
    /\ NoStream
    /\ NoBoost
    /\ NoStab

\* EnergyNormalizer.normalize
Normalize ==
    /\ \E s \in NormLevels \X NormLevels \X NormLevels :
          /\ sample' = s
          /\ max_a' = RunningMax(s[1], max_a)
          /\ max_b' = RunningMax(s[2], max_b)
          /\ max_c' = RunningMax(s[3], max_c)
          /\ steady' = (steady /\ (sample = <<>> \/ sample = s))
    /\ normalized' = <<NormRatio(sample'[1], max_a'),
                       NormRatio(sample'[2], max_b'),
                       NormRatio(sample'[3], max_c')>>
    /\ norm_calls' = (norm_calls + 1) % 2
    /\ UNCHANGED nonNormVars

NextNorm == Normalize

SpecNorm == InitNorm /\ [][NextNorm]_vars

\* the driver calls normalize on every tick
SpecNormFair == SpecNorm /\ WF_vars(Normalize)

(***************************************************************************)
(* Claims about the normalizer.                                            *)
(***************************************************************************)
Largest(s) == Max2(s[1], Max2(s[2], s[3]))

\* C12: for a stream in which every sample is the same and its largest
\* channel value is positive, the normalized output of that dominant
\* channel reaches 1.0 and stays 1.0 on every later tick.
C12_ConstantReachesOne ==
    <>[]((steady /\ sample # <<>> /\ Largest(sample) > 0) =>
            \A k \in 1..3 :
                sample[k] = Largest(sample) => normalized[k] = 100)

\* C13: every channel of every normalized sample lies in [0,1], and after
\* each call each running maximum equals max(sample, previous maximum *
\* decay) and is at least the sample just seen.
C13_NormalizedInUnitRange ==
    /\ [](normalized # <<>> =>
             /\ \A k \in 1..3 : normalized[k] >= 0 /\ normalized[k] <= 100
             /\ max_a >= sample[1]
             /\ max_b >= sample[2]
             /\ max_c >= sample[3])
    /\ [][/\ max_a' = Max2(sample'[1], (995 * max_a + 499) \div 1000)
          /\ max_b' = Max2(sample'[2], (995 * max_b + 499) \div 1000)
          /\ max_c' = Max2(sample'[3], (995 * max_c + 499) \div 1000)]_vars

\* one channel is normalized to 1.0, one to a value strictly between 0 and
\* 1, and the maximum of a silent channel has decayed
C13_Witness ==
    /\ normalized # <<>>
    /\ normalized[1] = 100
    /\ normalized[2] > 0 /\ normalized[2] < 100
    /\ sample[3] = 0 /\ max_c < DecayedMax

(***************************************************************************)
(* Energy remapping of the grid driver.                                    *)
(*                                                                         *)
(* Every iteration of the driver loop computes mapping_index from step_id  *)
(* and hands the normalized sample to apply_mapping.  Channel values are   *)
(* in hundredths.  Python's // and % round towards minus infinity, as \div *)
(* and % do here.                                                          *)
(***************************************************************************)
\* number of iterations of the driver loop that are modelled
MaxMapSteps == 13

\* MAPPINGS: the channel order of each entry (0 = a, 1 = b, 2 = c)
MAPPINGS ==
    << <<0, 1, 2>>, <<0, 2, 1>>, <<1, 0, 2>>,
       <<1, 2, 0>>, <<2, 0, 1>>, <<2, 1, 0>> >>

\* values of --steps-per-mapping and --mapping-start
StepsPerMapping == {0, 1, 2, 3}

MappingStarts == {-1, 0, 1, 5}

\* channel values of a normalized sample
MapLevels == {0, 50, 100}

MappingIndexNoStart(s, per, start) == (s - 1) \div Max2(1, per)

\* mapping_index of iteration s
MappingIndex(s, per, start) == (s - 1) \div Max2(1, per) + start

\* the sample apply_mapping returns
apply_mapping(smp, index) ==
    LET order == MAPPINGS[(index % Len(MAPPINGS)) + 1]
    IN <<smp[order[1] + 1], smp[order[2] + 1], smp[order[3] + 1]>>

InitMap ==
    /\ steps_per_mapping \in StepsPerMapping
    /\ mapping_start \in MappingStarts
    /\ loop_step_id = 0
    /\ energy = <<>>
    /\ mapping_index = 0
    /\ mapped = <<>>
    /\ NoEngines
    /\ NoNorm
    /\ NoFacet
    /\ NoStream
    /\ NoBoost
    /\ NoStab

\* one iteration of the loop, up to apply_mapping
MapStep ==
    /\ loop_step_id < MaxMapSteps
    /\ \E e \in MapLevels \X MapLevels \X MapLevels :
          /\ energy' = e
          /\ mapping_index' = MappingIndex(loop_step_id + 1, steps_per_mapping, mapping_start)
          /\ mapped' = apply_mapping(e, mapping_index')
    /\ loop_step_id' = loop_step_id + 1
    /\ UNCHANGED <<steps_per_mapping, mapping_start>>
    /\ UNCHANGED nonMapVars

NextMap == MapStep

SpecMap == InitMap /\ [][NextMap]_vars

\* the period of the mapping: max(1, steps_per_mapping)
MapPeriod == Max2(1, steps_per_mapping)

\* the table entry that produced mapped
EntryUsed == (mapping_start + (loop_step_id - 1) \div MapPeriod) % 6

\* the bag of channel values of a sample
ChannelBag(smp) == [v \in {smp[k] : k \in 1..3} |-> Cardinality({k \in 1..3 : smp[k] = v})]

\* C14: the sample mapped at tick s is the normalized sample read through
\* table entry (mapping_start + floor((s-1) / max(1, steps_per_mapping)))
\* mod 6; the table is six distinct orderings of the three channels, so the
\* mapped channels are a rearrangement of the normalized ones; the entry in
\* use moves on by one, modulo 6, exactly at the ticks that start a new block
\* of max(1, steps_per_mapping) ticks, and stays the same at every other tick.
C14_MappingRotates ==
    /\ [](/\ Len(MAPPINGS) = 6
          /\ \A i \in 1..6 : {MAPPINGS[i][k] : k \in 1..3} = {0, 1, 2}
          /\ \A i, j \in 1..6 : i # j => MAPPINGS[i] # MAPPINGS[j])
    /\ [](loop_step_id > 0 =>
            /\ \A k \in 1..3 : mapped[k] = energy[MAPPINGS[EntryUsed + 1][k] + 1]
            /\ ChannelBag(mapped) = ChannelBag(energy))
    /\ [][(loop_step_id > 0 /\ loop_step_id' = loop_step_id + 1) =>
            LET before == (mapping_start + (loop_step_id - 1) \div MapPeriod) % 6
                after == (mapping_start' + (loop_step_id' - 1) \div MapPeriod') % 6
            IN /\ mapped'[1] = energy'[MAPPINGS[after + 1][1] + 1]
               /\ IF loop_step_id % MapPeriod = 0
                    THEN after = (before + 1) % 6
                    ELSE after = before]_vars

\* the seventh block has been entered with a period of two ticks: the
\* mapping has wrapped round to the entry it started with
C14_Witness ==
    /\ steps_per_mapping = 2
    /\ loop_step_id = 13
    /\ mapping_start = 5
    /\ EntryUsed = 5
    /\ energy = <<0, 50, 100>>
    /\ mapped = <<100, 50, 0>>

(***************************************************************************)
(* Facet compositor: polygon_area and ensure_ccw.                          *)
(*                                                                         *)
(* Coordinates are IEEE doubles.  A double is modelled exactly on the      *)
(* values h * 2^53 + l with small integers h and l, written <<h, l>>:      *)
(* below 2^53 every integer is a double, and from 2^k * 2^53 up to         *)
(* 2^(k+1) * 2^53 the doubles are the multiples of 2^(k+1); a result       *)
(* between two doubles goes to the nearer one, and half way to the one     *)
(* whose mantissa is even, which is the multiple of twice the spacing.     *)
(* polygon_area returns area2 * 0.5, an exact halving: the model keeps     *)
(* the area in halves.                                                     *)
(***************************************************************************)
\* longest point list that is modelled
MaxPoints == 4

\* the largest power of two that is at most n (n >= 1)
RECURSIVE TopBit(_)
TopBit(n) == IF n < 2 THEN 1 ELSE 2 * TopBit(n \div 2)

\* distance between neighbouring doubles at hh * 2^53 + ll (hh >= 1)
Spacing(hh, ll) ==
    IF ll < 0 /\ hh = TopBit(hh) THEN TopBit(hh) ELSE 2 * TopBit(hh)

\* l rounded to a multiple of s, half way to the multiple of 2 * s
RoundTo(l, s) ==
    LET r == l % (2 * s)
    IN IF 2 * r <= s THEN l - r
       ELSE IF 2 * r < 3 * s THEN l - r + s
       ELSE l - r + 2 * s

\* the double nearest to h * 2^53 + l
fl_round(h, l) ==
    IF h = 0 THEN <<0, l>>
    ELSE LET sg == IF h > 0 THEN 1 ELSE -1
         IN <<h, sg * RoundTo(sg * l, Spacing(sg * h, sg * l))>>

\* a * b for doubles of which one is below 2^53
fl_mul(a, b) ==
    IF a[1] = 0 THEN fl_round(a[2] * b[1], a[2] * b[2])
    ELSE fl_round(b[2] * a[1], b[2] * a[2])

fl_sub(a, b) == fl_round(a[1] - b[1], a[2] - b[2])

fl_add(a, b) == fl_round(a[1] + b[1], a[2] + b[2])

\* d < 0.0
fl_negative(d) == d[1] < 0 \/ (d[1] = 0 /\ d[2] < 0)

\* abs(d)
fl_abs(d) == IF fl_negative(d) THEN <<-d[1], -d[2]>> ELSE d

\* Vec2(x, y)
Vec2(x, y) == [x |-> x, y |-> y]

\* 2^53 as a double
Big == <<1, 0>>

Small(n) == <<0, n>>

\* the points a list is drawn from
PolyPoints ==
    {Vec2(Small(0), Small(1)), Vec2(Small(1), Small(0)), Vec2(Small(1), Small(1)),
     Vec2(Small(2), Small(1)), Vec2(Small(2), Small(2)), Vec2(Small(0), Big)}

\* the point lists of n points
PointLists(n) == [1..n -> PolyPoints]

\* reversed(pts)
Reversed(pts) == [i \in 1..Len(pts) |-> pts[Len(pts) + 1 - i]]

\* area2 after the first i iterations of the loop of polygon_area
RECURSIVE Area2(_, _)
Area2(pts, i) ==
    IF i = 0 THEN Small(0)
    ELSE LET a == pts[i]
             b == pts[(i % Len(pts)) + 1]
         IN fl_add(Area2(pts, i - 1),
                   fl_sub(fl_mul(a.x, b.y), fl_mul(b.x, a.y)))

\* polygon_area(pts), in halves
polygon_area(pts) == Area2(pts, Len(pts))

\* ensure_ccw(pts)
ensure_ccw(pts) ==
    IF fl_negative(polygon_area(pts)) THEN Reversed(pts) ELSE pts

InitPoly ==
    /\ \E n \in 3..MaxPoints : poly_points \in PointLists(n)
    /\ NoPoly
    /\ NoSupport
    /\ NoLoad
    /\ NoEngines
    /\ NoNorm
    /\ NoMap
    /\ NoStream
    /\ NoBoost
    /\ NoStab

\* points = ensure_ccw(points)
CallEnsureCcw ==
    /\ poly_points # <<>>
    /\ ccw_calls < 2
    /\ poly_points' = ensure_ccw(poly_points)
    /\ ccw_calls' = ccw_calls + 1
    /\ area_fwd' = <<>>
    /\ area_rev' = <<>>
    /\ UNCHANGED <<ray_center, vertex, radius, raw_shapes, layers, load_state>>
    /\ UNCHANGED nonFacetVars

\* polygon_area(points) and polygon_area(list(reversed(points)))
CallPolygonArea ==
    /\ poly_points # <<>>
    /\ area_fwd = <<>>
    /\ area_fwd' = polygon_area(poly_points)
    /\ area_rev' = polygon_area(Reversed(poly_points))
    /\ UNCHANGED <<poly_points, ccw_calls, ray_center, vertex, radius,
                   raw_shapes, layers, load_state>>
    /\ UNCHANGED nonFacetVars

NextPoly == CallEnsureCcw \/ CallPolygonArea

SpecPoly == InitPoly /\ [][NextPoly]_vars

\* C15: ensure_ccw applied to its own result returns that result, and
\* the result of ensure_ccw has a signed area that is not negative.
C15_EnsureCcwIdempotent ==
    ccw_calls >= 1 =>
        /\ ensure_ccw(poly_points) = poly_points
        /\ ~fl_negative(polygon_area(poly_points))

\* C16: the area of the reversed point list is the area of the list with
\* the opposite sign and the same magnitude.
C16_AreaFlipsSign ==
    area_fwd # <<>> => area_rev = <<-area_fwd[1], -area_fwd[2]>>

(***************************************************************************)
(* Facet compositor: support_radius.                                       *)
(*                                                                         *)
(* The ray runs along the x axis: the center has the y of the vertex it    *)
(* aims at, so the unit direction (vertex - center).normalized() is        *)
(* exactly (1, 0) or (-1, 0).  An x coordinate is a whole number and a y   *)
(* coordinate a whole multiple of 2^-30; with the small values used here   *)
(* every product and sum of the function is an exact double.  denom and    *)
(* cross(rel, direction) are then multiples of 2^-30, cross(rel, edge) is  *)
(* a multiple of 2^-30 too, and t and u are kept as fractions              *)
(* <<numerator, denominator>> with a positive denominator.                 *)
(***************************************************************************)
\* longest point list handed to support_radius
MaxSupportPoints == 3

\* 1e-8 in multiples of 2^-30, rounded down (1e-8 * 2^30 = 10.7...)
DenomEps == 10

SupportXs == {0, 1, 2}

SupportYs == {-8, 0, 8, 1000}

SupportPoints == {Vec2(x, y) : x \in SupportXs, y \in SupportYs}

\* cross(a, b)
cross(a, b) == a.x * b.y - a.y * b.x

\* a - b for Vec2
VecSub(a, b) == Vec2(a.x - b.x, a.y - b.y)

\* the fraction n / d with a positive denominator (d # 0)
Frac(n, d) == IF d < 0 THEN <<-n, -d>> ELSE <<n, d>>

\* p > q for fractions
FracGreater(p, q) == p[1] * q[2] > q[1] * p[2]

\* the points turn the same way at every corner, and never go straight
IsConvex(pts) ==
    LET n == Len(pts)
        turn(i) == cross(VecSub(pts[(i % n) + 1], pts[i]),
                         VecSub(pts[((i + 1) % n) + 1], pts[(i % n) + 1]))
    IN \/ \A i \in 1..n : turn(i) > 0
       \/ \A i \in 1..n : turn(i) < 0

\* the unit direction from c to v (same y, different x)
DirectionTo(c, v) == Vec2(IF v.x > c.x THEN 1 ELSE -1, 0)

\* t >= 0.0 and 0.0 <= u <= 1.0
EdgeHit(t, u) == t[1] >= 0 /\ u[1] >= 0 /\ u[1] <= u[2]

\* best_t after the first i edges
RECURSIVE BestT(_, _, _, _)
BestT(pts, c, dir, i) ==
    IF i = 0 THEN <<0, 1>>
    ELSE LET best == BestT(pts, c, dir, i - 1)
             a == pts[i]
             b == pts[(i % Len(pts)) + 1]
             edge == VecSub(b, a)
             rel == VecSub(a, c)
             denom == cross(dir, edge)
         IN IF Abs(denom) <= DenomEps THEN best
            ELSE LET t == Frac(cross(rel, edge), denom)
                     u == Frac(cross(rel, dir), denom)
                 IN IF EdgeHit(t, u) /\ FracGreater(t, best) THEN t ELSE best

\* max_proj after the first i points
RECURSIVE MaxProj(_, _, _, _)
MaxProj(pts, c, dir, i) ==
    IF i = 0 THEN 0
    ELSE LET prev == MaxProj(pts, c, dir, i - 1)
             d == VecSub(pts[i], c)
             proj == d.x * dir.x + d.y * dir.y
         IN IF proj > prev THEN proj ELSE prev

\* support_radius(pts, c, dir), as a fraction
support_radius(pts, c, dir) ==
    IF Len(pts) < 2 THEN <<0, 1>>
    ELSE LET best_t == BestT(pts, c, dir, Len(pts))
         IN IF best_t[1] > 0 THEN best_t
            ELSE <<MaxProj(pts, c, dir, Len(pts)), 1>>

InitSupport ==
    /\ \E n \in 3..MaxSupportPoints : poly_points \in [1..n -> SupportPoints]
    /\ IsConvex(poly_points)
    /\ vertex \in 1..Len(poly_points)
    /\ ray_center \in SupportPoints
    /\ ray_center.y = poly_points[vertex].y
    /\ ray_center.x # poly_points[vertex].x
    /\ radius = <<>>
    /\ NoPoly
    /\ NoLoad
    /\ NoEngines
    /\ NoNorm
    /\ NoMap
    /\ NoStream
    /\ NoBoost
    /\ NoStab

\* radius = support_radius(points, center, direction)
CallSupportRadius ==
    /\ ray_center # <<>>
    /\ radius = <<>>
    /\ radius' = support_radius(poly_points, ray_center,
                                DirectionTo(ray_center, poly_points[vertex]))
    /\ UNCHANGED <<poly_points, ccw_calls, area_fwd, area_rev, ray_center, vertex,
                   raw_shapes, layers, load_state>>
    /\ UNCHANGED nonFacetVars

NextSupport == CallSupportRadius

SpecSupport == InitSupport /\ [][NextSupport]_vars

\* C17: for a convex polygon and a center apart from one of its vertices,
\* support_radius along the unit direction from the center to that vertex
\* is at least the distance from the center to the vertex.
C17_SupportReachesVertex ==
    radius # <<>> =>
        radius[1] >= Abs(poly_points[vertex].x - ray_center.x) * radius[2]

(***************************************************************************)
(* Energy sources.                                                         *)
(*                                                                         *)
(* source is what the --source argument names: the word synthetic, a path  *)
(* that does not exist, a directory, a file the process may not read, or   *)
(* a file with its lines.  A line is described by what reading and         *)
(* parsing it does:                                                        *)
(*   blank      : empty after strip()                                      *)
(*   bad_json   : json.loads raises JSONDecodeError (truncated, garbage)   *)
(*   deep_json  : brackets opened deeper than the recursion limit and      *)
(*                never closed; json.loads raises RecursionError           *)
(*   bad_utf8   : bytes that are not UTF-8; the text layer decodes the     *)
(*                file in blocks of 8192 bytes, so a file of one block     *)
(*                raises UnicodeDecodeError at its first read              *)
(*   non_object : a JSON value that is not an object (null, 42, [1, 2]);   *)
(*                data.get raises AttributeError                           *)
(*   other_type : an object whose type is not audio_payload                *)
(*   payload    : an audio_payload object with a number for bass           *)
(* One pull is one call of next() on the stream.                           *)
(***************************************************************************)
\* most lines a file has
MaxLines == 3

\* most samples pulled from one stream
MaxPulls == 4

Line(kind, bass) == [kind |-> kind, bass |-> bass]

\* the lines a file is made of
FileLines ==
    {Line(k, 0) : k \in {"blank", "bad_json", "deep_json", "bad_utf8",
                         "non_object", "other_type"}}
      \cup {Line("payload", b) : b \in {1, 2}}

Files == UNION {[1..n -> FileLines] : n \in 0..MaxLines}

\* what --source can name
Sources ==
    {[kind |-> k, lines |-> <<>>] : k \in {"synthetic", "missing", "directory",
                                          "no_permission"}}
      \cup {[kind |-> "file", lines |-> f] : f \in Files}

\* the samples SyntheticEnergyStream yields (tenths)
SyntheticSamples == {<<10, 5, 0>>, <<2, 9, 7>>}

\* os.path.exists(source)
PathExists(src) == src.kind \in {"directory", "no_permission", "file"}

\* the kind of stream build_energy_stream returns
Built(src) ==
    IF src.kind = "synthetic" THEN "synthetic"
    ELSE IF ~PathExists(src) THEN "synthetic"
    ELSE "jsonl"

\* the sample of a payload line: mid and treble default to 0.0
SampleOf(line) == <<line.bass, 0, 0>>

\* the rest of one pass of _iter_file from line i: up to the next yield,
\* the exception that ends it, or the end of the file
RECURSIVE Scan(_, _)
Scan(lines, i) ==
    IF i > Len(lines) THEN [state |-> "eof", pos |-> Len(lines), error |-> ""]
    ELSE LET kind == lines[i].kind
         IN IF kind \in {"blank", "bad_json", "other_type"} THEN Scan(lines, i + 1)
            ELSE IF kind = "deep_json"
                 THEN [state |-> "raised", pos |-> i, error |-> "RecursionError"]
            ELSE IF kind = "non_object"
                 THEN [state |-> "raised", pos |-> i, error |-> "AttributeError"]
            ELSE [state |-> "yield", pos |-> i, error |-> ""]

\* the first line of bytes that are not UTF-8 (0: none)
FirstBadUtf8(lines) ==
    IF \E i \in 1..Len(lines) : lines[i].kind = "bad_utf8"
    THEN CHOOSE i \in 1..Len(lines) :
            /\ lines[i].kind = "bad_utf8"
            /\ \A j \in 1..(i - 1) : lines[j].kind # "bad_utf8"
    ELSE 0

\* open(self.path) and the first read of a pass
OpenError(src) ==
    IF src.kind = "directory" THEN "IsADirectoryError"
    ELSE IF src.kind = "no_permission" THEN "PermissionError"
    ELSE IF FirstBadUtf8(src.lines) > 0 THEN "UnicodeDecodeError"
    ELSE ""

InitStream ==
    /\ source \in Sources
    /\ loop_flag \in BOOLEAN
    /\ stream_kind = "none"
    /\ stream_state = "none"
    /\ stream_error = ""
    /\ file_pos = 0
    /\ passes = 0
    /\ pass_yielded = FALSE
    /\ yielded = <<>>
    /\ NoEngines
    /\ NoNorm
    /\ NoMap
    /\ NoFacet
    /\ NoBoost
    /\ NoStab

\* energy_stream = build_energy_stream(args.source, not args.no_loop, seed)
BuildEnergyStream ==
    /\ source.kind # "none"
    /\ stream_kind = "none"
    /\ stream_kind' = Built(source)
    /\ stream_state' = "open"
    /\ UNCHANGED <<source, loop_flag, stream_error, file_pos, passes,
                   pass_yielded, yielded>>
    /\ UNCHANGED nonStreamVars

\* next(energy_stream) on the synthetic stream
PullSynthetic ==
    /\ stream_kind = "synthetic"
    /\ stream_state = "open"
    /\ Len(yielded) < MaxPulls
    /\ \E smp \in SyntheticSamples : yielded' = Append(yielded, smp)
    /\ UNCHANGED <<source, loop_flag, stream_kind, stream_state, stream_error,
                   file_pos, passes, pass_yielded>>
    /\ UNCHANGED nonStreamVars

\* the pull ends with an exception
PullRaises(pos, error) ==
    /\ stream_state' = "raised"
    /\ stream_error' = error
    /\ file_pos' = pos
    /\ UNCHANGED <<passes, pass_yielded, yielded>>

\* the pull returns the sample of line pos
PullYields(pos, finished) ==
    /\ yielded' = Append(yielded, SampleOf(source.lines[pos]))
    /\ file_pos' = pos
    /\ pass_yielded' = TRUE
    /\ passes' = passes + finished
    /\ UNCHANGED <<stream_state, stream_error>>

\* next(energy_stream) on the stream of a JsonlEnergyStream
PullJsonl ==
    /\ stream_kind = "jsonl"
    /\ stream_state = "open"
    /\ Len(yielded) < MaxPulls
    /\ IF file_pos = 0 /\ OpenError(source) # ""
       THEN PullRaises(FirstBadUtf8(source.lines), OpenError(source))
       ELSE LET r == Scan(source.lines, file_pos + 1)
            IN IF r.state = "raised" THEN PullRaises(r.pos, r.error)
               ELSE IF r.state = "yield" THEN PullYields(r.pos, 0)
               ELSE IF loop_flag /\ pass_yielded
                    THEN PullYields(Scan(source.lines, 1).pos, 1)
               ELSE /\ stream_state' = "done"
                    /\ stream_error' = "StopIteration"
                    /\ file_pos' = r.pos
                    /\ passes' = passes + 1
                    /\ UNCHANGED <<pass_yielded, yielded>>
    /\ UNCHANGED <<source, loop_flag, stream_kind>>
    /\ UNCHANGED nonStreamVars

NextStream == BuildEnergyStream \/ PullSynthetic \/ PullJsonl

SpecStream == InitStream /\ [][NextStream]_vars

\* the samples of the payload lines among the first n lines, in file order
RECURSIVE PayloadsUpTo(_, _)
PayloadsUpTo(lines, n) ==
    IF n = 0 THEN <<>>
    ELSE IF lines[n].kind = "payload"
         THEN Append(PayloadsUpTo(lines, n - 1), <<lines[n].bass, 0, 0>>)
         ELSE PayloadsUpTo(lines, n - 1)

\* seq repeated n times
RECURSIVE Repeated(_, _)
Repeated(seq, n) == IF n = 0 THEN <<>> ELSE Repeated(seq, n - 1) \o seq

\* a line that is not a JSON text
Malformed(line) == line.kind \in {"bad_json", "deep_json", "bad_utf8"}

\* C18: reading a file never fails on a malformed line, and the samples
\* pulled so far are those of the valid audio_payload lines read so far, in
\* file order: a malformed line adds no sample and hides no later record.
C18_MalformedLineSkipped ==
    (stream_kind = "jsonl" /\ source.kind = "file") =>
        /\ (stream_state = "raised" /\ file_pos > 0)
              => ~Malformed(source.lines[file_pos])
        /\ stream_state # "raised" =>
              yielded = Repeated(PayloadsUpTo(source.lines, Len(source.lines)),
                                 IF stream_state = "done" THEN passes - 1 ELSE passes)
                          \o PayloadsUpTo(source.lines,
                                          IF stream_state = "done" THEN Len(source.lines)
                                          ELSE file_pos)

\* C19: for a source that is missing or cannot be read, build_energy_stream
\* returns the synthetic stream, and no pull from it fails.
C19_FallsBackToSynthetic ==
    (stream_kind # "none" /\ source.kind \in {"missing", "directory", "no_permission"})
        => (stream_kind = "synthetic" /\ stream_state # "raised")

(***************************************************************************)
(* Facet compositor: load_shape_layers.                                    *)
(*                                                                         *)
(* A shape entry is the list under its "points" key; a raw point is a      *)
(* JSON object that may lack the key x or the key y.  Coordinates are the  *)
(* doubles of polygon_area above.  The entries carry no index, saved_unix  *)
(* or color key, so a layer gets the defaults of those fields.             *)
(***************************************************************************)
\* most entries of payload["shapes"]
MaxShapes == 3

\* a raw point with both keys, without x, without y
RawPoint(x, y) == [has_x |-> TRUE, has_y |-> TRUE, x |-> x, y |-> y]

RawPointNoX(y) == [has_x |-> FALSE, has_y |-> TRUE, x |-> Small(0), y |-> y]

RawPointNoY(x) == [has_x |-> TRUE, has_y |-> FALSE, x |-> x, y |-> Small(0)]

\* the raw point lists the entries are drawn from
RawShapes ==
    LET a == RawPoint(Small(1), Small(0))
        b == RawPoint(Small(2), Small(2))
        c == RawPoint(Small(0), Big)
        d == RawPoint(Small(2), Small(1))
        e == RawPoint(Small(0), Small(1))
    IN {<<a, b, e>>, <<e, b, a>>, <<a, b>>, <<a, RawPointNoY(Small(2)), e>>,
        <<a, b, RawPointNoX(Small(1)), e>>, <<a, d, b, e>>, <<e, b, d, a>>,
        <<a, b, c, d>>}

\* [Vec2(float(p["x"]), float(p["y"])) for p in raw_points if "x" in p and "y" in p]
RECURSIVE ReadPoints(_)
ReadPoints(raw_points) ==
    IF raw_points = <<>> THEN <<>>
    ELSE LET p == Head(raw_points)
         IN IF p.has_x /\ p.has_y
            THEN <<Vec2(p.x, p.y)>> \o ReadPoints(Tail(raw_points))
            ELSE ReadPoints(Tail(raw_points))

\* ShapeLayer(index, saved_unix = 0.0, points, area, color_rgba = None)
ShapeLayer(index, pts, area) == [index |-> index, points |-> pts, area |-> area]

\* layers after the entries of raw, starting from the list acc
RECURSIVE LoadLayers(_, _)
LoadLayers(raw, acc) ==
    IF raw = <<>> THEN acc
    ELSE LET pts == ReadPoints(Head(raw))
         IN IF Len(pts) < 3 THEN LoadLayers(Tail(raw), acc)
            ELSE LET ccw == ensure_ccw(pts)
                 IN LoadLayers(Tail(raw),
                               Append(acc, ShapeLayer(Len(acc) + 1, ccw,
                                                      fl_abs(polygon_area(ccw)))))

InitLoad ==
    /\ \E n \in 0..MaxShapes : raw_shapes \in [1..n -> RawShapes]
    /\ layers = <<>>
    /\ load_state = "none"
    /\ poly_points = <<>>
    /\ NoPoly
    /\ NoSupport
    /\ NoEngines
    /\ NoNorm
    /\ NoMap
    /\ NoStream
    /\ NoBoost
    /\ NoStab

LoadOutcomeNoRaise(loaded) == "returned"

\* if not layers: raise ValueError; otherwise the function returns
LoadOutcome(loaded) == IF loaded = <<>> THEN "ValueError" ELSE "returned"

\* run_id, layers = load_shape_layers(json_path)
LoadShapeLayers ==
    /\ load_state = "none"
    /\ LET loaded == LoadLayers(raw_shapes, <<>>)
       IN /\ load_state' = LoadOutcome(loaded)
          /\ layers' = IF load_state' = "returned" THEN loaded ELSE <<>>
    /\ UNCHANGED <<poly_points, ccw_calls, area_fwd, area_rev, ray_center, vertex,
                   radius, raw_shapes>>
    /\ UNCHANGED nonFacetVars

NextLoad == LoadShapeLayers

SpecLoad == InitLoad /\ [][NextLoad]_vars

\* the points of an entry that carry both x and y, in the entry's order
CompletePoints(entry) ==
    LET idx == {i \in 1..Len(entry) : entry[i].has_x /\ entry[i].has_y}
        nth(k) == CHOOSE i \in idx : Cardinality({j \in idx : j <= i}) = k
    IN [k \in 1..Cardinality(idx) |-> [x |-> entry[nth(k)].x, y |-> entry[nth(k)].y]]

\* the entries with at least 3 complete points, in input order
KeptEntries ==
    LET idx == {i \in 1..Len(raw_shapes) : Len(CompletePoints(raw_shapes[i])) >= 3}
        nth(k) == CHOOSE i \in idx : Cardinality({j \in idx : j <= i}) = k
    IN [k \in 1..Cardinality(idx) |-> CompletePoints(raw_shapes[nth(k)])]

\* C20: the layers returned are the entries with at least 3 complete
\* points, in input order; the points of a layer are those of its entry in
\* the entry's order or reversed, with a signed area that is not negative,
\* and the area field is the absolute value of that signed area.
C20_LayersKeptCcw ==
    load_state = "returned" =>
        /\ Len(layers) = Len(KeptEntries)
        /\ \A k \in 1..Len(layers) :
              /\ layers[k].points \in {KeptEntries[k], Reversed(KeptEntries[k])}
              /\ ~fl_negative(polygon_area(layers[k].points))
              /\ layers[k].area = fl_abs(polygon_area(layers[k].points))

\* C21: when no entry of the shapes array has at least 3 complete points
\* (the array may be empty), load_shape_layers raises an error and returns
\* no layer list; when some entry has, it returns and the list is not empty.
C21_NoLayersIsAnError ==
    load_state # "none" =>
        /\ (Len(KeptEntries) = 0) <=> (load_state = "ValueError")
        /\ load_state = "returned" => Len(layers) >= 1
        /\ load_state = "ValueError" => layers = <<>>

\* two entries were given and both were dropped
C21_Witness ==
    /\ load_state = "ValueError"
    /\ Len(raw_shapes) = 2
    /\ Len(raw_shapes[1]) = 2
    /\ Len(raw_shapes[2]) = 3

(***************************************************************************)
(* Grid engine: the split-thickness veto.                                  *)
(***************************************************************************)
\* the cells _add_cell would try for p in the running call
MirrorImages(p) == IF frame.symmetric THEN SymmetricPoints(p) ELSE {p}

\* the split-thickness test fails for p or for one of its in-grid unfilled
\* mirror images: the cell has 2 or more filled neighbours and the filled
\* line through it, perpendicular to its growth direction, is too short
SplitTestFails(p) ==
    /\ frame.split_thickness > 0
    /\ \E q \in MirrorImages(p) :
          /\ InGrid(q)
          /\ grid[q] = 0
          /\ NeighborCount(grid, q) >= 2
          /\ PerpendicularThickness(grid, q) < frame.split_thickness

\* the two cells beside p, perpendicular to the growth direction at p
PerpendicularCells(p) ==
    LET d == SplitDirection(grid, p)
    IN IF d = <<0, 0>> THEN {}
       ELSE {<<p[1] - d[2], p[2] + d[1]>>, <<p[1] + d[2], p[2] - d[1]>>}

\* C22: while the loop runs, a candidate whose split-thickness test fails
\* is vetoed as a whole: whatever the thickening fallback fills for it,
\* neither the candidate nor a mirror image of it is among the filled
\* cells, which are one of the two cells perpendicular to the growth
\* direction and mirror images of that cell; and last_split only ever
\* changes to a candidate whose split test passes.
C22_VetoedEventFillsNoCandidate ==
    /\ [](pc = "loop" =>
            \A c \in candidates :
               SplitTestFails(c) =>
                  \A r \in ThickenInsteadOfSplit(Work, c, frame.step_id,
                                                 frame.symmetric) :
                     /\ r.filled \cap (MirrorImages(c) \cup {c}) = {}
                     /\ \/ r.filled = {}
                        \/ \E t \in PerpendicularCells(c) :
                              /\ t \in r.filled
                              /\ r.filled \subseteq MirrorImages(t))
    /\ [][(pc = "loop" /\ last_split' # last_split) =>
             /\ last_split' \in candidates
             /\ ~SplitTestFails(last_split')]_vars

(***************************************************************************)
(* Grid engine: the auto-fill pass.                                        *)
(***************************************************************************)
\* C23: a call with auto_fill_neighbors = k >= 1 returns with no boundary
\* cell that has k or more filled neighbours, whether the candidate loop ran
\* to its end or stopped at max_add; and the auto-fill loop ends, because
\* each of its iterations that does not end it fills the cell it visits.
C23_AutoFillReachesFixedPoint ==
    /\ [](pc = "return" /\ frame.auto_fill_neighbors >= 1 =>
            \A c \in boundary :
               NeighborCount(grid, c) < frame.auto_fill_neighbors)
    /\ [][pc = "autofill" /\ pc' = "autofill" =>
            /\ Filled \subseteq {c \in Cells : grid'[c] > 0}
            /\ Filled # {c \in Cells : grid'[c] > 0}]_vars

\* the candidate loop stopped at max_add = 1 with candidates left over and
\* the auto-fill pass filled further cells before the call returned
C23_Witness ==
    /\ pc = "return"
    /\ frame.auto_fill_neighbors = 3
    /\ frame.max_add = 1
    /\ ~frame.symmetric
    /\ Cardinality(filledNow) >= 2
    /\ boundary # {}

(***************************************************************************)
(* Grid engine: the seed boost of step().  The boost multiplies the growth *)
(* probability of every candidate of a call; it depends only on the        *)
(* arguments seed_boost_start, seed_boost_end, seed_boost_steps and        *)
(* step_id.  Boosts are counted in quarters and seed_boost_steps is 0 or a *)
(* power of two, so that every double operation of the code is exact; the  *)
(* factor is the fraction <<numerator, denominator>>.                      *)
(***************************************************************************)
MaxBoostExp == 2
MaxBoostStepId == 6

\* 0.0, 1.0 (the default of step), 1.5, 2.5 (the default of the command line)
SeedBoosts == {0, 4, 6, 10}

BoostSteps == {0} \cup {Pow2(k) : k \in 0..MaxBoostExp}

\* t = min(1.0, max(0.0, step_id / seed_boost_steps)), as numerator over
\* seed_boost_steps
BoostT(steps, step_id) == MinOf({steps, Max2(0, step_id)})

\* if seed_boost_steps > 0: boost = start + (end - start) * t
\* else: boost = seed_boost_start
SeedBoost(b0, b1, steps, step_id) ==
    IF steps > 0
    THEN <<b0 * steps + (b1 - b0) * BoostT(steps, step_id), steps>>
    ELSE <<b0, 1>>

\* prob *= max(0.0, boost)
AppliedBoost(b) == <<Max2(0, b[1]), b[2]>>

InitBoost ==
    /\ seed_boost_start \in SeedBoosts
    /\ seed_boost_end \in SeedBoosts
    /\ seed_boost_steps \in BoostSteps
    /\ boost_step_id = 0
    /\ boost = <<>>
    /\ NoEngines
    /\ NoNorm
    /\ NoMap
    /\ NoFacet
    /\ NoStream
    /\ NoStab

\* sim.step(step_id, energy, ..., seed_boost_steps=args.seed_boost_steps):
\* the driver counts its ticks from 1 and skips the quiet ones
CallStepBoost ==
    /\ \E id \in (boost_step_id + 1)..MaxBoostStepId :
          /\ boost_step_id' = id
          /\ boost' = AppliedBoost(SeedBoost(seed_boost_start, seed_boost_end,
                                             seed_boost_steps, id))
    /\ UNCHANGED <<seed_boost_start, seed_boost_end, seed_boost_steps>>
    /\ UNCHANGED nonBoostVars

NextBoost == CallStepBoost

SpecBoost == InitBoost /\ [][NextBoost]_vars

\* C24: the factor a call applies is start + (end - start) * step_id / steps
\* while 0 <= step_id <= steps, and is seed_boost_end for every step_id >=
\* seed_boost_steps, whatever seed_boost_steps >= 0 is.
C24_SeedBoostInterpolates ==
    boost # <<>> =>
       /\ (seed_boost_steps > 0 /\ boost_step_id <= seed_boost_steps) =>
             boost[1] * seed_boost_steps =
                boost[2] * (seed_boost_start * seed_boost_steps
                            + (seed_boost_end - seed_boost_start) * boost_step_id)
       /\ boost_step_id >= seed_boost_steps =>
             boost[1] = boost[2] * seed_boost_end

(***************************************************************************)
(* Rod engine: when an extension is committed, and when a rod goes         *)
(* inactive.                                                               *)
(***************************************************************************)
\* the rod the loop body is visiting, before and after the body
VisitedRod == rods[cursor]
VisitedRodAfter == rods'[cursor]

\* the rectangle the length attempt of the visit tests
LengthTest == [VisitedRod EXCEPT !.length = @ + GrowLen(VisitedRod.center)]

\* test intersects the rectangle of a rod other than the visited one
HitsOtherRod(test) ==
    \E j \in 1..Len(rods) : j # cursor /\ rects_intersect(test, rods[j])

\* one pass of the body of `for rod in rods`
RodVisit == cursor <= Len(rods) /\ cursor' = cursor + 1

\* C25: a visit changes the length of the rod only to the length of a
\* rectangle that lies inside the canvas and intersects no other rod, active
\* or not, and its width only to the width of such a rectangle; in every
\* other case the length, respectively the width, stays as it was.
C25_ExtensionOnlyIfFree ==
    [][RodVisit =>
         LET old == VisitedRod
             new == VisitedRodAfter
             longer == [old EXCEPT !.length = new.length]
             wider == [longer EXCEPT !.width = new.width]
         IN /\ new.length \in {old.length, LengthTest.length}
            /\ new.width \in {old.width, old.width + GrowWid}
            /\ new.length # old.length =>
                  rect_in_bounds(longer) /\ ~HitsOtherRod(longer)
            /\ new.width # old.width =>
                  rect_in_bounds(wider) /\ ~HitsOtherRod(wider)]_vars

\* a tick has gone by in which the border of the canvas kept one rod at its
\* length while its width grew, and a collision kept another rod at its
\* length
C25_Witness ==
    /\ tick >= 1
    /\ \E i \in 1..RodCount :
          /\ rods[i].active
          /\ rods[i].energy >= 100
          /\ rods[i].length = Fix(30) + 47 * GrowLen(rods[i].center)
          /\ rods[i].width > Fix(6) + 47 * GrowWid
          /\ ~rect_in_bounds([rods[i] EXCEPT
                                 !.length = @ + GrowLen(rods[i].center)])
    /\ \E j \in 1..Len(rods) : ~rods[j].active

\* C26: a visit makes the rod inactive exactly when its length extension
\* lies inside the canvas and hits another rod (an extension that would
\* leave the canvas does not); an inactive rod stays as it is, in its active
\* flag, its length and its width; and every new rod is a branch of the rod
\* being visited, which is active when the visit ends.
C26_InactiveIsFinal ==
    [][/\ (RodVisit /\ VisitedRod.active) =>
             /\ ~VisitedRodAfter.active =>
                   rect_in_bounds(LengthTest) /\ HitsOtherRod(LengthTest)
             /\ (/\ rect_in_bounds(LengthTest)
                 /\ HitsOtherRod(LengthTest)
                 /\ (VisitedRod.energy >= 100 \/ rods' # rods))
                   => ~VisitedRodAfter.active
       /\ Len(rods') >= Len(rods)
       /\ \A i \in 1..Len(rods) : ~rods[i].active => rods'[i] = rods[i]
       /\ Len(rods') > Len(rods) =>
             /\ RodVisit
             /\ Len(rods') = Len(rods) + 1
             /\ VisitedRodAfter.active
             /\ rods'[Len(rods')].center = VisitedRodAfter.center]_vars

\* in the third tick: a rod that grew in the first tick, collided in the
\* second and has been passed over in the third, next to an active rod that
\* the border of the canvas has kept at its length since the first tick
C26_Witness ==
    /\ tick = 2
    /\ \E j \in 1..RodCount :
          /\ cursor > j
          /\ ~rods[j].active
          /\ rods[j].energy >= 100
          /\ rods[j].length = Fix(30) + 48 * GrowLen(rods[j].center)
    /\ \E i \in 1..RodCount :
          /\ rods[i].active
          /\ rods[i].energy >= 100
          /\ rods[i].length = Fix(30) + 47 * GrowLen(rods[i].center)
          /\ ~rect_in_bounds([rods[i] EXCEPT
                                 !.length = @ + GrowLen(rods[i].center)])

(***************************************************************************)
(* Tree engine: clamping a grown node to the canvas.                       *)
(***************************************************************************)
\* C27: a step leaves every node whose length it changed (grow_length is
\* the only part of a step that changes lengths) with base-left, base-right
\* and tip inside the canvas, however thick the node has become.
C27_GrownNodesInCanvas ==
    [][\A i \in 1..Len(nodes) :
          nodes'[i].length # nodes[i].length =>
             fits_in_bounds(args.size, nodes'[i])]_vars

\* the lengths and thicknesses of the node grow_length hands to
\* _clamp_length_to_bounds: a root of length 0.2 after a pulse of 0.3, the
\* default root after no, one and two full thickness pulses and after
\* length pulses that keep it inside the canvas or take it out
ClampLengths == {Fix(1) \div 2, Fix(18), Fix(22), Fix(30)}
ClampThicknesses == {Fix(6), Fix(6) + 1440, Fix(6) + 2880}

\* the state inside grow_length, the pulse added to the length of the root
\* of a tree built with --root-length 0.2 or with the model's root length
InitClamp ==
    /\ \E a \in TreeArgs, l \in ClampLengths, th \in ClampThicknesses :
          /\ args = [a EXCEPT !.root_length =
                                 IF l < Fix(1) THEN Fix(1) \div 5 ELSE @]
          /\ nodes = <<[Root(a) EXCEPT !.length = l, !.thickness = th]>>
    /\ next_id = NextIdAfter(1)
    /\ split_points = <<>>
    /\ split_target_id = NoneId
    /\ tree_steps = 0
    /\ NoGrid
    /\ NoRods
    /\ NoAux

\* self._clamp_length_to_bounds(leaf)
ClampCall ==
    /\ tree_steps < MaxTreeSteps
    /\ nodes' = [i \in 1..Len(nodes) |->
                    clamp_length_to_bounds(args.size, nodes[i])]
    /\ tree_steps' = tree_steps + 1
    /\ UNCHANGED <<args, next_id, split_points, split_target_id>>
    /\ UNCHANGED nonTreeVars

NextClamp == ClampCall

SpecClamp == InitClamp /\ [][NextClamp]_vars

\* C28: _clamp_length_to_bounds never makes a node longer, and leaves a
\* node whose footprint is inside the canvas at the length it has.
C28_ClampOnlyShortens ==
    [][tree_steps' # tree_steps =>
          \A i \in 1..Len(nodes) :
             /\ nodes'[i].length <= nodes[i].length
             /\ fits_in_bounds(args.size, nodes[i]) =>
                   nodes'[i].length = nodes[i].length]_vars

(***************************************************************************)
(* Tree engine: which node is charged and split.                           *)
(***************************************************************************)
\* the ids of the nodes that have no children before the step
LeafIds == {nodes[i].node_id : i \in leaves(nodes)}

\* C29: the node a step leaves as the split target, every node whose split
\* charge a step raises and every node a step attaches children to has no
\* children when the step begins.
C29_OnlyLeavesAreSplit ==
    [][/\ split_target_id' # NoneId => split_target_id' \in LeafIds
       /\ \A i \in 1..Len(nodes) :
             nodes'[i].split_charge > nodes[i].split_charge =>
                nodes[i].node_id \in LeafIds
       /\ \A j \in (Len(nodes) + 1)..Len(nodes') :
             nodes'[j].parent \in LeafIds]_vars

(***************************************************************************)
(* Tree engine: what a split of advance_one_step does.                     *)
(***************************************************************************)
\* command lines with --split-scale 12 on canvases of 36 and 40 pixels: a
\* full split pulse (8.4) reaches the charge a child of the root requires
\* (8.0), so that a child can be split on the tick after the root
TreeSplitArgs ==
    {[a EXCEPT !.split_scale = 12, !.size = sz] :
        a \in TreeArgs, sz \in {36, 40}}

InitTreeSplit ==
    /\ args \in TreeSplitArgs
    /\ nodes = <<Root(args)>>
    /\ next_id = NextIdAfter(1)
    /\ split_points = <<>>
    /\ split_target_id = NoneId
    /\ tree_steps = 0
    /\ NoGrid
    /\ NoRods
    /\ NoAux

SpecTreeSplit == InitTreeSplit /\ [][NextTree]_vars

\* the nodes a step appends
NewNodes == (Len(nodes) + 1)..Len(nodes')

\* position of the node the step splits: the parent of the first new node
SplitNode == node_by_id(nodes, nodes'[Len(nodes) + 1].parent)

\* split_pulse of a tick whose split band is at its maximum
FullSplitPulse == pulse_amount(100, args.split_threshold, args.split_scale)

\* C30: a step that splits a node appends one or two children, all of that
\* node, each starting at the node's end point, one level deeper, without
\* children and uncharged; the node's charge is the charge it had plus the
\* pulse, less the required charge for each child; and the node's end point
\* is appended to the split points once.  A step that appends no child
\* leaves the split points as they are.
C30_SplitCreatesChildren ==
    [][/\ Len(nodes') >= Len(nodes)
       /\ Len(nodes') = Len(nodes) => split_points' = split_points
       /\ Len(nodes') > Len(nodes) =>
             LET p == SplitNode
                 k == Len(nodes') - Len(nodes)
                 R == required_split_charge(args, nodes'[p])
             IN /\ p # 0
                /\ k \in {1, 2}
                /\ \A j \in NewNodes :
                      /\ nodes'[j].parent = nodes[p].node_id
                      /\ nodes'[j].start = end(nodes'[p])
                      /\ nodes'[j].depth = nodes[p].depth + 1
                      /\ nodes'[j].split_charge = 0
                      /\ \A c \in 1..Len(nodes') :
                            nodes'[c].parent # nodes'[j].node_id
                /\ nodes'[p].split_charge =
                      nodes[p].split_charge + FullSplitPulse - R * k
                /\ split_points' = Append(split_points, end(nodes'[p]))
                /\ split_target_id' = NoneId]_vars

\* the root has been split into two children, and then one of them into a
\* single child, which left it with its charge less the required charge
C30_Witness ==
    /\ Len(nodes) = 4
    /\ nodes[2].parent = nodes[1].node_id
    /\ nodes[3].parent = nodes[1].node_id
    /\ nodes[4].depth = 2
    /\ split_points = <<end(nodes[1]), nodes[4].start>>
    /\ \E p \in {2, 3} :
          /\ nodes[4].parent = nodes[p].node_id
          /\ nodes[4].start = end(nodes[p])
          /\ nodes[p].split_charge =
                FullSplitPulse - required_split_charge(args, nodes[p])

(***************************************************************************)
(* Tree engine: the rejection rules of split_direction_candidates.         *)
(***************************************************************************)
\* the footprint bounding box of node `a` widened by buf meets that of `b`
BoxesOverlap(a, b, buf) ==
    LET ta == tri_aabb(a)
        ob == tri_aabb(b)
    IN ~(\/ ta.maxx + buf < ob.minx
         \/ ta.minx - buf > ob.maxx
         \/ ta.maxy + buf < ob.miny
         \/ ta.miny - buf > ob.maxy)

\* C31: every child a step creates has its footprint inside the canvas, its
\* tip at least split_min_distance from every split point recorded before
\* the split, and its footprint bounding box, widened by the overlap buffer,
\* clear of the footprint bounding box of every node that existed before the
\* split other than the node being split; for every buffer >= 0.
C31_ChildrenPassRejectionRules ==
    [][\A j \in NewNodes :
          /\ fits_in_bounds(args.size, nodes'[j])
          /\ min_split_distance_ok(split_points, end(nodes'[j]),
                                   Max2(0, args.split_min_distance))
          /\ \A o \in 1..Len(nodes) :
                o # SplitNode =>
                   ~BoxesOverlap(nodes'[j], nodes'[o],
                                 Max2(0, args.split_overlap_buffer))]_vars

\* the same with the overlap rule only for a positive buffer
C31_RulesAsCoded ==
    [][\A j \in NewNodes :
          /\ fits_in_bounds(args.size, nodes'[j])
          /\ min_split_distance_ok(split_points, end(nodes'[j]),
                                   Max2(0, args.split_min_distance))
          /\ args.split_overlap_buffer > 0 =>
                \A o \in 1..Len(nodes) :
                   o # SplitNode =>
                      ~BoxesOverlap(nodes'[j], nodes'[o],
                                    args.split_overlap_buffer)]_vars

(***************************************************************************)
(* Tree engine: what grow_thickness and grow_length leave alone.           *)
(***************************************************************************)
\* the pulses and caps of the direct calls: no pulse, the full length pulse
\* of the defaults (19.2), no cap and a cap of 8 pixels
GrowAmounts == {0, 1920}
GrowCaps == {0, Fix(8)}

\* a direct call tree.grow_thickness(amount, max_thickness)
GrowThicknessCall ==
    /\ tree_steps < MaxTreeSteps
    /\ \E amount \in GrowAmounts, cap \in GrowCaps :
          nodes' = grow_thickness(nodes, amount, cap)
    /\ tree_steps' = tree_steps + 1
    /\ UNCHANGED <<args, next_id, split_points, split_target_id>>
    /\ UNCHANGED nonTreeVars

\* a direct call tree.grow_length(amount, max_length)
GrowLengthCall ==
    /\ tree_steps < MaxTreeSteps
    /\ \E amount \in GrowAmounts, cap \in GrowCaps :
          nodes' = grow_length(args.size, nodes, amount, cap)
    /\ tree_steps' = tree_steps + 1
    /\ UNCHANGED <<args, next_id, split_points, split_target_id>>
    /\ UNCHANGED nonTreeVars

NextTreeGrow ==
    \/ GrowThicknessCall
    \/ GrowLengthCall
    \/ SplitLeafCall

SpecTreeGrow == InitTree /\ [][NextTreeGrow]_vars

\* the nodes with the field `field` blanked
Blank(ns, field) == [i \in 1..Len(ns) |-> [ns[i] EXCEPT ![field] = 0]]

\* ns and after have the same nodes, equal in every field but `field`
SameBut(ns, after, field) == Blank(after, field) = Blank(ns, field)

\* C32: a call that changes a thickness (grow_thickness) changes nothing but
\* thickness fields, and a call that changes a length (grow_length) nothing
\* but length fields: the nodes are the same in number, id, parent, start,
\* direction, depth and split charge; and no call changes the id, parent,
\* start, direction or depth of a node, so that a child stays where it was
\* created when its parent's end moves.
C32_GrowthChangesOneField ==
    [][/\ (\E i \in 1..Len(nodes) : nodes'[i].thickness # nodes[i].thickness)
             => SameBut(nodes, nodes', "thickness")
       /\ (\E i \in 1..Len(nodes) : nodes'[i].length # nodes[i].length)
             => SameBut(nodes, nodes', "length")
       /\ Len(nodes') >= Len(nodes)
       /\ \A i \in 1..Len(nodes) :
             \A f \in {"node_id", "parent", "start", "direction", "depth"} :
                nodes'[i][f] = nodes[i][f]]_vars

\* a child starts below the end of its parent: the parent has grown since
\* the split, and the child is where it was created
C32_Witness ==
    \E j \in 1..Len(nodes) :
       LET p == node_by_id(nodes, nodes[j].parent)
       IN /\ p # 0
          /\ nodes[j].start = split_points[1]
          /\ end(nodes[p]) # nodes[j].start
          /\ nodes[p].length > args.root_length

(***************************************************************************)
(* Energy sources: looping over the file.                                  *)
(***************************************************************************)
\* seq begins with pre
IsPrefix(pre, seq) ==
    /\ Len(pre) <= Len(seq)
    /\ \A k \in 1..Len(pre) : pre[k] = seq[k]

\* the samples of the valid records of the file, in file order
ValidRecords == PayloadsUpTo(source.lines, Len(source.lines))

\* what the claim says of a stream over a file, as far as it has been pulled
StreamAsClaimed ==
    /\ stream_state # "raised"
    /\ (loop_flag /\ ValidRecords # <<>>) =>
          /\ stream_state # "done"
          /\ IsPrefix(yielded, Repeated(ValidRecords, MaxPulls))
    /\ (~loop_flag /\ ValidRecords # <<>>) =>
          /\ IsPrefix(yielded, ValidRecords)
          /\ stream_state = "done" => yielded = ValidRecords
    /\ ValidRecords = <<>> =>
          /\ yielded = <<>>
          /\ stream_state = "open" => (file_pos = 0 /\ passes = 0)

\* C33: a looping stream over a file with a valid record never ends and
\* yields the valid records in file order, again and again; a stream that
\* does not loop yields them once, in order, and ends; and the stream over a
\* file without a valid record ends at the first pull, looping or not.
C33_LoopingStreamRepeatsFile ==
    (stream_kind = "jsonl" /\ source.kind = "file") => StreamAsClaimed

\* the same for the files all of whose lines _iter_file skips or yields
C33_CleanFileStream ==
    (/\ stream_kind = "jsonl"
     /\ source.kind = "file"
     /\ \A k \in 1..Len(source.lines) :
           source.lines[k].kind \in {"blank", "bad_json", "other_type",
                                     "payload"})
       => StreamAsClaimed

\* a looping stream over a clean file of two records is in its second pass
C33_SecondPass ==
    /\ stream_kind = "jsonl"
    /\ loop_flag
    /\ Len(ValidRecords) = 2
    /\ passes = 1
    /\ Len(yielded) = 3

(***************************************************************************)
(* Facet compositor: stabilize_layers_against_previous.                    *)
(*                                                                         *)
(* Every vertex lies on a coordinate axis through the anchor centre, which *)
(* is the origin, so that hypot and the division of normalized() are       *)
(* exact: a radial vector has the length of its one coordinate and a       *)
(* direction with coordinates -1, 0 and 1.  Coordinates are doubles in     *)
(* multiples of 2^-30 (the unit of support_radius above: 1e-8 is 10.7 and  *)
(* 1e-6 is 1073.7 of them), written <<h, l>> for h * 2^53 + l as for       *)
(* polygon_area.  A product with 0.25 or 0.5 is exact; the one product     *)
(* that is not a double of this form, avg * 1.04, is written               *)
(* <<h, l, 104>> for the double nearest to 1.04 * (h * 2^53 + l).  The     *)
(* constant 1.04 is the double 1.04 + 3.6e-17, and for the values of the   *)
(* model 1.04 * avg lies further than half a spacing from curr_r unless    *)
(* 26 * avg = 25 * curr_r, so that min(curr_r, avg * 1.04) is curr_r       *)
(* exactly when 26 * avg >= 25 * curr_r.  The fields area and color_rgba   *)
(* of a layer are left out.                                                *)
(***************************************************************************)
\* longest layer list handed to the function
MaxLayers == 3

Exact(n) == <<0, n>>

\* 2^57 units (2^27)
Huge == <<16, 0>>

\* the double nearest to 1.04 * v
Scaled(v) == <<v[1], v[2], 104>>

IsScaled(v) == Len(v) = 3

\* -1, 0 or 1: the sign of a value
SignOf(v) ==
    IF v[1] > 0 \/ (v[1] = 0 /\ v[2] > 0) THEN 1
    ELSE IF v[1] = 0 /\ v[2] = 0 THEN 0 ELSE -1

\* abs(v)
AbsVal(v) ==
    IF SignOf(v) >= 0 THEN v
    ELSE IF IsScaled(v) THEN Scaled(<<-v[1], -v[2]>>) ELSE <<-v[1], -v[2]>>

\* a <= b for two values; 1.04 * v is compared as 26 * v with 25 * b
ValLeq(a, b) ==
    LET ka == IF IsScaled(a) THEN 26 ELSE 25
        kb == IF IsScaled(b) THEN 26 ELSE 25
    IN \/ ka * a[1] < kb * b[1]
       \/ (ka * a[1] = kb * b[1] /\ ka * a[2] <= kb * b[2])

\* v * 0.25 and v * 0.5
Quarter(v) == <<v[1] \div 4, v[2] \div 4>>
Halved(v) == <<v[1] \div 2, v[2] \div 2>>

\* clamp01 of a strength given in halves
clamp01(x) == Max2(0, MinOf({2, x}))

\* lerp(a, b, t) = a + (b - a) * t, t in halves
lerp(a, b, t) ==
    LET d == fl_sub(b, a)
    IN fl_add(a, IF t = 0 THEN Exact(0) ELSE IF t = 1 THEN Halved(d) ELSE d)

\* Vec2.length() of a vector along an axis
Length(v) == IF SignOf(v.y) = 0 THEN AbsVal(v.x) ELSE AbsVal(v.y)

\* Vec2.normalized() of a vector along an axis
unit_direction(v) ==
    IF ValLeq(Length(v), Exact(DenomEps)) THEN Vec2(0, 0)
    ELSE Vec2(SignOf(v.x), SignOf(v.y))

\* value * k for k in {-1, 0, 1}
Signed(v, k) ==
    IF k = 0 THEN Exact(0)
    ELSE IF k = 1 THEN v
    ELSE IF IsScaled(v) THEN Scaled(<<-v[1], -v[2]>>) ELSE <<-v[1], -v[2]>>

\* center + direction * r, for the center at the origin
PointAt(center, direction, r) ==
    Vec2(Signed(r, direction.x), Signed(r, direction.y))

\* polygon_center(points): the sums are whole multiples of n
polygon_center(pts) ==
    LET n == Len(pts)
        sum(f(_), k) == LET RECURSIVE S(_)
                            S(i) == IF i = 0 THEN Exact(0)
                                    ELSE fl_add(S(i - 1), f(pts[i]))
                        IN S(k)
        sx == sum(LAMBDA p : p.x, n)
        sy == sum(LAMBDA p : p.y, n)
    IN Vec2(<<sx[1] \div n, sx[2] \div n>>, <<sy[1] \div n, sy[2] \div n>>)

\* 1e-6 in multiples of 2^-30, rounded down
RadiusEps == 1073

\* the points of a stabilized layer before the last: whole numbers
WholePoints(pts) == [i \in 1..Len(pts) |-> Vec2(pts[i].x[2], pts[i].y[2])]

\* support_radius(prev_layer.points, center, direction), a whole number
PrevRadius(prev_points, center, direction) ==
    LET t == support_radius(WholePoints(prev_points),
                            Vec2(center.x[2], center.y[2]), direction)
    IN Exact(t[1] \div t[2])

\* the rest of the loop body for a point at distance rad > 1e-6 in
\* direction `direction`, prev_radius being the support radius there
Adjust(center, rad, direction, prev_radius, strength, ratio) ==
    LET allowed == fl_mul(prev_radius, Exact(ratio))
        target_radius ==
            IF SignOf(prev_radius) > 0
            THEN (IF ValLeq(rad, allowed) THEN rad ELSE allowed)
            ELSE rad
    IN [r |-> lerp(rad, target_radius, strength), dir |-> direction]

\* the loop body for the point p at distance rad from the center
AdjustPoint(p, rad, radial, prev_points, center, strength, ratio) ==
    IF ValLeq(rad, Exact(RadiusEps))
    THEN [r |-> Exact(0), dir |-> Vec2(0, 0)]
    ELSE Adjust(center, rad, unit_direction(radial),
                PrevRadius(prev_points, center, unit_direction(radial)),
                strength, ratio)

\* the first pass over curr_layer.points: per point adjusted_radii[i] and
\* adjusted_dirs[i]
FirstPass(points, prev_points, center, strength, ratio) ==
    [i \in 1..Len(points) |->
        LET radial == Vec2(fl_sub(points[i].x, center.x),
                           fl_sub(points[i].y, center.y))
        IN AdjustPoint(points[i], Length(radial), radial, prev_points,
                       center, strength, ratio)]

\* min(curr_r, avg * 1.04)
SmoothMin(curr_r, avg) ==
    IF ValLeq(curr_r, Scaled(avg)) THEN curr_r ELSE Scaled(avg)

\* smoothed[i]
Smoothed(adj, i) ==
    LET count == Len(adj)
        prev_r == adj[((i - 2 + count) % count) + 1].r
        curr_r == adj[i].r
        next_r == adj[(i % count) + 1].r
    IN SmoothMin(curr_r,
                 fl_add(fl_add(Quarter(prev_r), Halved(curr_r)),
                        Quarter(next_r)))

\* the sign of the area sum: every term is one product of two coordinates
\* or zero; a list whose terms have both signs is not in the model
AreaIsNegative(pts) ==
    LET n == Len(pts)
        term(i) == LET a == pts[i]
                       b == pts[(i % n) + 1]
                   IN SignOf(a.x) * SignOf(b.y) - SignOf(b.x) * SignOf(a.y)
    IN /\ \A i \in 1..n : term(i) <= 0
       /\ \E i \in 1..n : term(i) < 0

\* ensure_ccw(adjusted)
EnsureCcwAxis(adjusted) ==
    IF AreaIsNegative(adjusted) THEN Reversed(adjusted) ELSE adjusted

\* the list `adjusted` after both passes: with fewer than 3 points the
\* points of the first pass, a point within 1e-6 of the center being kept
Readjusted(points, adj, center) ==
    IF Len(adj) >= 3
    THEN [i \in 1..Len(adj) |->
             IF adj[i].dir = Vec2(0, 0) THEN center
             ELSE PointAt(center, adj[i].dir, Smoothed(adj, i))]
    ELSE [i \in 1..Len(adj) |->
             IF adj[i].dir = Vec2(0, 0) THEN points[i]
             ELSE PointAt(center, adj[i].dir, adj[i].r)]

\* the points of out[curr_idx] after one iteration of the loop over order
StabilizedPoints(points, prev_points, center, strength, ratio) ==
    EnsureCcwAxis(
        Readjusted(points,
                   FirstPass(points, prev_points, center, strength, ratio),
                   center))

\* sorted(range(len(layers)), key=(index, saved_unix)): a stable sort
GrowthOrder(ls) ==
    LET before(i, j) ==
            \/ ls[i].index < ls[j].index
            \/ (ls[i].index = ls[j].index /\ ls[i].saved_unix < ls[j].saved_unix)
            \/ (ls[i].index = ls[j].index /\ ls[i].saved_unix = ls[j].saved_unix
                /\ i < j)
        rank(i) == 1 + Cardinality({j \in 1..Len(ls) : before(j, i)})
    IN [k \in 1..Len(ls) |-> CHOOSE i \in 1..Len(ls) : rank(i) = k]

\* one iteration of the loop over order: out with out[curr_idx] replaced
StabilizeOne(out, prev_idx, curr_idx, anchor_center, strength, ratio) ==
    [out EXCEPT ![curr_idx].points =
        StabilizedPoints(out[curr_idx].points, out[prev_idx].points,
                         anchor_center, strength, ratio)]

\* out after the iterations seq_idx = 1 .. k - 1 of the loop
RECURSIVE StabilizedUpTo(_, _, _, _, _, _)
StabilizedUpTo(ls, order, anchor_center, strength, ratio, k) ==
    IF k <= 1 THEN ls
    ELSE StabilizeOne(StabilizedUpTo(ls, order, anchor_center, strength,
                                     ratio, k - 1),
                      order[k - 1], order[k], anchor_center, strength, ratio)

\* the function after `if len(layers) <= 1`, order being the sorted indices
StabilizeInOrder(ls, order, strength, ratio) ==
    StabilizedUpTo(ls, order, polygon_center(ls[order[1]].points), strength,
                   ratio, Len(ls))

\* stabilize_layers_against_previous(layers, strength, max_growth_ratio),
\* strength and max_growth_ratio in halves
stabilize_layers_against_previous(ls, strength, max_growth_ratio) ==
    IF Len(ls) <= 1 THEN ls
    ELSE StabilizeInOrder(ls, GrowthOrder(ls), clamp01(strength),
                          Max2(2, max_growth_ratio) \div 2)

\* the four-point layer with vertices at e, n, w and s on the axes
Diamond(e, n, w, s) ==
    <<Vec2(e, Exact(0)), Vec2(Exact(0), n),
      Vec2(<<-w[1], -w[2]>>, Exact(0)), Vec2(Exact(0), <<-s[1], -s[2]>>)>>

\* the point lists of the layers: diamonds around the origin, one with a
\* vertex 2^57 units out, one with a vertex closer to the centre than
\* 1e-6, and a triangle with a vertex at the centre
StabShapes ==
    {Diamond(Exact(1144), Exact(1144), Exact(1144), Exact(1144)),
     Diamond(Exact(1280), Exact(1280), Exact(1280), Exact(1280)),
     Diamond(Exact(1280), Exact(1144), Exact(1280), Exact(1144)),
     Diamond(Huge, Exact(1280), Exact(1280), Exact(1280)),
     Diamond(Exact(1280), Exact(1280), Exact(512), Exact(1280)),
     <<Vec2(Exact(1280), Exact(0)), Vec2(Exact(0), Exact(1280)),
       Vec2(Exact(0), Exact(0))>>}

\* (index, saved_unix) of a layer
StabKeys == {<<0, 0>>, <<0, 1>>, <<1, 0>>}

\* strength and max_growth_ratio, in halves
Strengths == {0, 1, 2, 3}
GrowthRatios == {1, 2, 4}

\* every coordinate of the layer is a multiple of 8 units and at most 1280
\* units, so that the halves and quarters taken of the radii of the next
\* layer are whole numbers
WholeLayer(layer) ==
    \A i \in 1..Len(layer.points) :
       \A v \in {layer.points[i].x, layer.points[i].y} :
          /\ ~IsScaled(v)
          /\ v[1] = 0
          /\ v[2] >= -1280
          /\ v[2] <= 1280
          /\ v[2] % 8 = 0

\* the calls of the model: the anchor centre is the origin, and every
\* layer but the last in growth order is stabilized to whole coordinates
InitStab ==
    /\ \E n \in 1..MaxLayers :
          \E shapes \in [1..n -> StabShapes], keys \in [1..n -> StabKeys],
             strength \in Strengths, max_growth_ratio \in GrowthRatios :
             \E ls \in {[i \in 1..n |->
                           [index |-> keys[i][1], saved_unix |-> keys[i][2],
                            points |-> shapes[i]]]} :
                \E order \in {GrowthOrder(ls)} :
                   /\ polygon_center(ls[order[1]].points)
                         = Vec2(Exact(0), Exact(0))
                   /\ \E out \in {StabilizedUpTo(
                                     ls, order, Vec2(Exact(0), Exact(0)),
                                     clamp01(strength),
                                     Max2(2, max_growth_ratio) \div 2,
                                     n - 1)} :
                         \A k \in 1..(n - 1) : WholeLayer(out[order[k]])
                   /\ stab_call = [layers |-> ls, strength |-> strength,
                                   max_growth_ratio |-> max_growth_ratio]
    /\ stab_out = <<>>
    /\ NoEngines
    /\ NoNorm
    /\ NoMap
    /\ NoFacet
    /\ NoStream
    /\ NoBoost

\* layers = stabilize_layers_against_previous(layers, strength, ratio)
CallStabilize ==
    /\ stab_call.layers # <<>>
    /\ stab_out = <<>>
    /\ stab_out' = stabilize_layers_against_previous(
                       stab_call.layers, stab_call.strength,
                       stab_call.max_growth_ratio)
    /\ UNCHANGED stab_call
    /\ UNCHANGED nonStabVars

NextStab == CallStabilize

SpecStab == InitStab /\ [][NextStab]_vars


\* the layers of the call in growth order
StabOrder == GrowthOrder(stab_call.layers)

\* the first layer in growth order is returned as it was handed in
StabFirstUnchanged ==
    stab_out[StabOrder[1]] = stab_call.layers[StabOrder[1]]

\* no vertex of a layer is farther from the anchor centre (the origin)
\* after the call than before; the lists of the model are counter-clockwise
\* before and after, so vertex i of the result is vertex i of the input
StabNeverFarther ==
    \A j \in 1..Len(stab_out) :
       /\ Len(stab_out[j].points) = Len(stab_call.layers[j].points)
       /\ \A i \in 1..Len(stab_out[j].points) :
             ValLeq(Length(stab_out[j].points[i]),
                    Length(stab_call.layers[j].points[i]))

\* vertex p of a layer is within ratio times the support radius of the
\* points prev_points along its direction from the origin, when that
\* support radius is positive
WithinCap(p, prev_points, ratio) ==
    LET direction == Vec2(SignOf(p.x), SignOf(p.y))
        prev_radius == PrevRadius(prev_points, Vec2(Exact(0), Exact(0)),
                                  direction)
    IN (direction # Vec2(0, 0) /\ SignOf(prev_radius) > 0)
          => ValLeq(Length(p), fl_mul(prev_radius, Exact(ratio)))

\* every vertex of every layer after the first is within the cap of the
\* stabilized layer before it
StabWithinCap ==
    \A k \in 2..Len(stab_out) :
       \A i \in 1..Len(stab_out[StabOrder[k]].points) :
          WithinCap(stab_out[StabOrder[k]].points[i],
                    stab_out[StabOrder[k - 1]].points,
                    Max2(2, stab_call.max_growth_ratio) \div 2)

\* C34: after stabilize_layers_against_previous with strength 1 every
\* vertex of every layer after the first in growth order is at most
\* max(1, max_growth_ratio) times the support radius of the stabilized
\* previous layer away from the anchor centre, when that radius is
\* positive; with a strength in [0, 1] no vertex ends farther from the
\* anchor centre than it started; the first layer is returned unchanged.
C34_StabilizedWithinPrevious ==
    stab_out # <<>> =>
       /\ StabFirstUnchanged
       /\ stab_call.strength \in {0, 1, 2} => StabNeverFarther
       /\ stab_call.strength = 2 => StabWithinCap

\* some vertex of some layer is 2^57 units from the centre
HasHugeVertex(ls) ==
    \E j \in 1..Len(ls) : \E i \in 1..Len(ls[j].points) :
       ls[j].points[i].x = Huge

\* C34 for calls whose vertices are all within 1280 units of the centre,
\* where a + (b - a) * 1 is b
C34_WithinPreviousAtOrdinaryScale ==
    (stab_out # <<>> /\ ~HasHugeVertex(stab_call.layers)) =>
       /\ StabFirstUnchanged
       /\ stab_call.strength \in {0, 1, 2} => StabNeverFarther
       /\ stab_call.strength = 2 => StabWithinCap

\* the two parts of C34 that hold for every call of the model
C34_UnchangedAndNeverFarther ==
    stab_out # <<>> => (StabFirstUnchanged /\ StabNeverFarther)

\* a call with strength 1 has pulled a vertex 2^57 units out to within
\* 1280 units of the centre
C34_Witness ==
    /\ stab_out # <<>>
    /\ stab_call.strength = 2
    /\ \E j \in 1..Len(stab_out) :
          /\ stab_call.layers[j].points[1].x = Huge
          /\ stab_out[j].points[1].x # Huge
          /\ j # StabOrder[1]


\* the grid g is unchanged by a quarter turn about the centre cell: a cell
\* and its three images are in the grid and hold the same step-id (0 for
\* empty)
RotationInvariant(g) ==
    \A c \in Cells : \A q \in QuarterTurns(c) : InGrid(q) /\ g[q] = g[c]

\* C35: with symmetry_faces = 4, symmetric growth and an odd grid size the
\* grid is invariant under a quarter turn about the centre cell after
\* construction, and every growth event of a symmetric step() call takes an
\* invariant grid to an invariant grid: a cell and its three images are all
\* empty or all filled with the same step-id.
C35_QuarterTurnInvariant ==
    /\ (symmetry_faces = 4 /\ size % 2 = 1) => RotationInvariant(grid)
    /\ [][(/\ symmetry_faces = 4
           /\ size % 2 = 1
           /\ frame.symmetric
           /\ RotationInvariant(grid))
          => RotationInvariant(grid')]_vars

\* a symmetric step() call on the 3 x 3 grid with four faces has filled a
\* cluster of four cells, and the grid is invariant
C35_Witness ==
    /\ symmetry_faces = 4
    /\ size = 3
    /\ pc = "return"
    /\ frame.symmetric
    /\ Cardinality(filledNow) >= 4
    /\ RotationInvariant(grid)


\* every cell of the grid is filled
GridFull == \A c \in Cells : grid[c] > 0

\* C36: in every reachable state the boundary set is empty if and only if
\* every cell of the grid is filled; step() takes its early return, which
\* returns 0 and leaves grid, boundary and last_split unchanged, only on a
\* completely filled grid, and a call on a filled grid takes it.
C36_BoundaryEmptyIffFull ==
    /\ [](boundary = {} <=> GridFull)
    /\ [][(pc = "idle" /\ pc' = "idle")
            => /\ GridFull
               /\ added' = 0
               /\ UNCHANGED <<grid, boundary, last_split>>]_vars
    /\ [][(pc = "idle" /\ GridFull) => pc' = "idle"]_vars

\* step() has been called on the filled 1 x 1 grid and has returned early
C36_Witness ==
    /\ pc = "idle"
    /\ lastStepId >= 1
    /\ boundary = {}
    /\ GridFull
    /\ \A c \in Cells : grid[c] = 1


\* C37: after construction and after every step() call (step ids are at
\* least 1) last_split is unset or an in-grid filled cell, and it changes
\* only while a candidate of the call with at least two filled
\* 4-neighbours is processed, to that candidate.
C37_LastSplitIsFilledCell ==
    /\ [](pc \in {"idle", "return"} =>
             \/ last_split = NoPoint
             \/ (InGrid(last_split) /\ grid[last_split] > 0))
    /\ [][last_split' # last_split =>
             /\ pc = "loop"
             /\ last_split' \in candidates
             /\ NeighborCount(grid, last_split') >= 2
             /\ grid'[last_split'] > 0]_vars

\* a call has returned with last_split set to a cell it filled
C37_Witness ==
    /\ pc = "return"
    /\ last_split # NoPoint
    /\ last_split \in filledNow
    /\ grid[last_split] = frame.step_id


\* the split pulses a tick can carry
SplitPulses ==
    {pulse_amount(treble, args.split_threshold, args.split_scale) :
        treble \in BandLevels}

\* the positions in ns of the nodes with the id node_id
Holders(ns, node_id) == {i \in 1..Len(ns) : ns[i].node_id = node_id}

\* the charge of every node of ns but the one at position i is the same
\* in after
OthersKeepCharge(ns, after, i) ==
    \A j \in 1..Len(ns) :
       j # i => after[j].split_charge = ns[j].split_charge

\* C38: the split target changes only from none to a node of the tree, on
\* a tick whose positive split pulse is added to that node and to no
\* other, and from a node to none, on a tick whose positive split pulse
\* takes that node's charge to its required charge or above; on a tick
\* that keeps the target, the split pulse is added to the target and the
\* charge of no other node changes.
C38_SplitTargetTransitions ==
    [][/\ split_target_id' # split_target_id
            => (split_target_id = NoneId \/ split_target_id' = NoneId)
       /\ (split_target_id = NoneId /\ split_target_id' # NoneId)
            => \E i \in Holders(nodes, split_target_id') :
                  /\ \E sp \in SplitPulses :
                        /\ sp > 0
                        /\ nodes'[i].split_charge = nodes[i].split_charge + sp
                  /\ OthersKeepCharge(nodes, nodes', i)
       /\ (split_target_id # NoneId /\ split_target_id' = NoneId)
            => \E i \in Holders(nodes, split_target_id) :
                  \E sp \in SplitPulses :
                     /\ sp > 0
                     /\ nodes[i].split_charge + sp
                           >= required_split_charge(args, nodes'[i])
       /\ (split_target_id # NoneId /\ split_target_id' = split_target_id)
            => \E i \in Holders(nodes, split_target_id) :
                  /\ \E sp \in SplitPulses :
                        /\ nodes'[i].split_charge = nodes[i].split_charge + sp
                        /\ sp > 0 => nodes'[i].split_charge
                                        < required_split_charge(args, nodes'[i])
                  /\ OthersKeepCharge(nodes, nodes', i)]_vars

\* a child of the root is the split target and has been charged by more
\* than one pulse
C38_TargetKept ==
    /\ split_target_id # NoneId
    /\ \E i \in Holders(nodes, split_target_id) :
          /\ nodes[i].parent # NoneId
          /\ \E sp \in SplitPulses : sp > 0 /\ nodes[i].split_charge >= 2 * sp

\* a child of the root, which needs more than one pulse, has been picked,
\* charged over two ticks and split, and the target is none again
C38_Witness ==
    /\ split_target_id = NoneId
    /\ \E i \in 1..Len(nodes) :
          /\ nodes[i].parent # NoneId
          /\ \E sp \in SplitPulses :
                sp > 0 /\ sp < required_split_charge(args, nodes[i])
          /\ \E j \in 1..Len(nodes) : nodes[j].parent = nodes[i].node_id

\* the command lines of TreeArgs for the canvas of 40 without a split
\* distance or an overlap buffer, and with a split scale of 4 as well, with which a child of
\* the root needs three full split pulses
TreeTargetArgs ==
    {[a EXCEPT !.split_scale = sc] :
        a \in {b \in TreeArgs : /\ b.size = 40
                              /\ b.split_min_distance = 0
                              /\ b.split_overlap_buffer = 0},
        sc \in {4, 8}}

\* the results [t, target] of the first tick of the driver
AfterFirstTick(a) ==
    UNION {StepOutcomes(a, [nodes |-> <<Root(a)>>,
                            next_id |-> NextIdAfter(1),
                            split_points |-> <<>>],
                        NoneId, bass, mid, treble) :
              bass \in BandLevels, mid \in BandLevels, treble \in BandLevels}

\* the driver after its first tick; tree_steps counts the ticks from there
InitTreeTarget ==
    /\ args \in TreeTargetArgs
    /\ \E r \in AfterFirstTick(args) :
          /\ nodes = r.t.nodes
          /\ next_id = r.t.next_id
          /\ split_points = r.t.split_points
          /\ split_target_id = r.target
    /\ tree_steps = 0
    /\ NoGrid
    /\ NoRods
    /\ NoAux

SpecTreeTarget == InitTreeTarget /\ [][NextTree]_vars


\* C39: the split charge of every node is non-negative in every reachable
\* state, also right after a split that created two children and right
\* after a split attempt without a viable direction.
C39_ChargeNonNegative ==
    \A i \in 1..Len(nodes) : nodes[i].split_charge >= 0

\* C39 with the charge a split can leave: a node's charge is at least
\* minus its required charge, and it is negative only on a node that has
\* children
C39_ChargeAboveMinusRequired ==
    \A i \in 1..Len(nodes) :
       /\ nodes[i].split_charge >= -required_split_charge(args, nodes[i])
       /\ nodes[i].split_charge < 0
             => \E j \in 1..Len(nodes) : nodes[j].parent = nodes[i].node_id

====
